---- MODULE Spec2Model ----
(***************************************************************************)
(* wsp: a reverse HTTP proxy over WebSockets.                              *)
(*                                                                         *)
(* Part I  - the internal peer ("client" package): one Pool dialing        *)
(*           tunnels to one target, its connector (replenisher) and the    *)
(*           life of each Connection.                                      *)
(* Part II - the public peer ("server" package): pools of registered       *)
(*           tunnels, the idle ConnectionStack, the pool GC, the           *)
(*           dispatcher (getConnection) and the four-frame exchange of     *)
(*           proxyRequest against the internal peer's serve loop.          *)
(***************************************************************************)
EXTENDS Integers, Sequences, FiniteSets, TLC

(***************************************************************************)
(* Bounds of the model                                                     *)
(***************************************************************************)
\* Connection ids the internal peer may allocate (getNextId is unbounded).
MaxId == 3
\* Largest configured PoolIdleSize / PoolMaxSize explored.
MaxPoolIdleSize == 3
MaxPoolMaxSize == 3
\* Status-change notifications counted between two wakeups of the connector.
MaxUnseen == 2

Min(a, b) == IF a < b THEN a ELSE b
Max(a, b) == IF a > b THEN a ELSE b

(***************************************************************************)
(* Part I : internal peer                                                  *)
(***************************************************************************)
VARIABLES
    PoolIdleSize,     \* client.Config.PoolIdleSize
    PoolMaxSize,      \* client.Config.PoolMaxSize
    id,               \* the package counter behind getNextId
    poolConnections,  \* client Pool.connections : sequence of connection ids
    poolDone,         \* client Pool.done is closed
    poolStarted,      \* Pool.start has run its bootstrap connector()
    listenerC,        \* ConnectionStatusListner.c : number of buffered signals (cap 1)
    cStatus,          \* client Connection.status
    cDone,            \* client Connection.done is closed
    cWs,              \* client Connection.ws : "nil", "open" or "closed"
    cPc,              \* position of the connection's task (the goroutine of connector)
    unseen,           \* history : calls of onConnectionStatusChanged since the
                      \* replenisher last received a signal (counted up to MaxUnseen)
    everUp,           \* history : some connection has been set IDLE or RUNNING
    replPc            \* position of the goroutine of Pool.start : "none", "select",
                      \* "break" or "exit"

clientVars == <<PoolIdleSize, PoolMaxSize, id, poolConnections, poolDone, poolStarted,
                listenerC, cStatus, cDone, cWs, cPc, unseen, everUp, replPc>>

\* the state of the public peer (Part II)
VARIABLES
    Timeout,      \* server Config.Timeout (> 0 : a deadline is armed)
    nConns,       \* tunnels the scenario registers
    nReqs,        \* requests the scenario receives
    SecretKey,    \* server Config.SecretKey
    Blacklist,    \* server validator : RequestValidator.Blacklist
    Whitelist,    \* server validator : RequestValidator.Whitelist
    regKey,       \* the X-SECRET-KEY header of the tunnel's /register request
    rDst,         \* the X-PROXY-DESTINATION header of the /request ("" : missing)
    rMethod,      \* the method of the /request
    rHeader,      \* the other headers of the /request
    now,          \* the clock
    serverLock,   \* writer of Server.lock : 0, or the tunnel whose register holds it
    pools,        \* Server.pools : the set of pool objects
    pClient,      \* Pool.clientSettings.ID (0 : the pool object is not created yet)
    pSize,        \* Pool.clientSettings.PoolSize
    pDone,        \* Pool.done is closed
    pConns,       \* Pool.connections
    pLock,        \* holder of Pool.lock : "free", "register" or "gc"
    sTop,         \* ConnectionStack.run : top (0 : nil)
    sConns,       \* ConnectionStack.run : connections
    sDone,        \* ConnectionStack.done is closed
    sRun,         \* ConnectionStack.run has not returned
    offers,       \* tunnels whose offer is blocked sending on ConnectionStack.in
    sOrder,       \* history : the stored tunnels in the order the stack accepted them
    gcPc,         \* the pool's GC goroutine : "idle", "run" or "exit"
    gcTodo,       \* clean : members the range loop has still to visit
    gcIdle,       \* clean : the idle counter
    gcHit,        \* clean : the tunnel clean is about to close (0 : none)
    gcQuiet,      \* history : the pass began with every IDLE member older than IdleTimeout
    gcIdle0,      \* history : IDLE members when the pass began
    status,       \* server Connection.status ("NONE" before register)
    idleSince,    \* server Connection.idleSince
    cPool,        \* server Connection.pool
    rdPc,         \* position of Connection.read
    regPc,        \* position of the tunnel's /register handler
    link,         \* the websocket : "up" or "down"
    down,         \* messages in flight, public -> internal
    up,           \* messages in flight, internal -> public
    frames,       \* history : the data frames sent on the tunnel since its last release
    iPc,          \* internal peer : position of Connection.serve on this tunnel
    iCode,        \* internal peer : status code of the response being sent
    iBreak,       \* internal peer : serve breaks after the response
    rPc,          \* position of the /request handler
    timer,        \* getConnection's timeout channel : "nil", "armed", "fired", "consumed"
    rCases,       \* getConnection : the pools of the select being built
    rConn,        \* the tunnel received from a stack, then held (0 : none)
    rFrame,       \* proxyRequest : the message whose reader it holds
    committed,    \* the response headers went to the HTTP client (WriteHeader)
    respStatus,   \* the status code of the committed headers
    outcome,      \* how the handler ended
    rFrames,      \* history : frames of the request's exchange, once it completed
    rFailed,      \* history : the tunnel failed under the request before the headers were committed
    rWrong        \* history : proxyRequest read a frame of the wrong type

cfgVars == <<Timeout, nConns, nReqs, SecretKey, Blacklist, Whitelist, regKey, rDst, rMethod,
             rHeader>>
srvVars == <<serverLock, pools>>
poolVars == <<pClient, pSize, pDone, pConns, pLock>>
stackVars == <<sTop, sConns, sDone, sRun, offers, sOrder>>
gcVars == <<gcPc, gcTodo, gcIdle, gcHit, gcQuiet, gcIdle0>>
connVars == <<status, idleSince, cPool, rdPc, regPc>>
wireVars == <<link, down, up, frames>>
intVars == <<iPc, iCode, iBreak>>
reqVars == <<rPc, timer, rCases, rConn, rFrame, committed, respStatus, outcome,
             rFrames, rFailed, rWrong>>

serverVars == <<cfgVars, now, srvVars, poolVars, stackVars, gcVars, connVars, wireVars,
                intVars, reqVars>>

\* Server.Start and Server.Shutdown
VARIABLES
    serverDone,   \* Server.done is closed
    statsPc,      \* position of the stats goroutine of Server.Start : "select", "break"
                  \* or "exit"
    shPc,         \* position of Server.Shutdown : "none", "pools", "done", or "again"
                  \* (a second call)
    shTodo,       \* Shutdown : the pools its range loop has still to close
    pCloses,      \* history : calls of close(pool.done), up to the one that panics
    sCloses,      \* history : calls of ConnectionStack.close
    panicked      \* a goroutine has panicked and nothing recovers : the process is gone

taskVars == <<serverDone, statsPc, shPc, shTodo, pCloses, sCloses, panicked>>

\* the priority queue of package priority_queue (Part III)
VARIABLES
    priority,     \* run : the priority variable, FIFO or LIFO
    items,        \* run : the items in the queue, the head of a LIFO queue at the end
    requests,     \* run : the channels of the Take requests it buffered
    channel,      \* queue.channel : the messages of the callers blocked in their send
    runPc,        \* the run goroutine : "none" (no queue yet), "recv", "send" (in the
                  \* send of an offerMessage or takeMessage), "exec" (in the range
                  \* loop of an execMessage), "execSend" (in a send of that loop),
                  \* "exit" (after a closeMessage)
    runTodo,      \* execMessage : the requests its range loop has still to visit
    runSend,      \* the send in progress : <<request, item>>
    chBuf,        \* the buffer (of capacity 1) of each request channel
    chClosed,     \* the request channel is closed
    cons,         \* the consumer of each Take : "none" (no such call yet), "wait",
                  \* "item" or "closed" (what its receive returned)
    gotItem,      \* the item its receive returned
    nOffer,       \* the calls of Offer so far
    nExec,        \* the calls of Exec so far
    nSet,         \* the calls of SetPriority so far
    nClose,       \* the calls of Close so far
    keys,         \* the keys of the items the callers offer : {0} for items that are
                  \* not Comparable, or the keys of the ComparableItem values
    inserted,     \* history : the items stored in the queue, in the order of storing
    removed       \* history : the items a function given to Exec took out of the queue

queueVars == <<priority, items, requests, channel, runPc, runTodo, runSend, chBuf, chClosed,
               cons, gotItem, nOffer, nExec, nSet, nClose, keys, inserted, removed>>

vars == <<clientVars, serverVars, taskVars, queueVars>>

\* the calls of Offer, Take, Exec and SetPriority a run makes at most
QueueItems == 2
QueueTakes == 2
QueueExecs == 2
QueueSets == 1
\* the keys of the Comparable items offered, and the items the adding function adds
QueueKeys == 2
AddCount == 2

FIFO == 0
LIFO == 1

Takes == 1..QueueTakes

\* no PriorityQueue has been constructed
NoQueue ==
    /\ priority = FIFO
    /\ items = <<>>
    /\ requests = <<>>
    /\ channel = {}
    /\ runPc = "none"
    /\ runTodo = <<>>
    /\ runSend = <<>>
    /\ chBuf = [r \in Takes |-> <<>>]
    /\ chClosed = [r \in Takes |-> FALSE]
    /\ cons = [r \in Takes |-> "none"]
    /\ gotItem = [r \in Takes |-> <<>>]
    /\ nOffer = 0
    /\ nExec = 0
    /\ nSet = 0
    /\ nClose = 0
    /\ keys = {0}
    /\ inserted = <<>>
    /\ removed = {}

Ids == 1..MaxId

ClientStatus == {"NEW", "CONNECTING", "IDLE", "RUNNING", "CLOSED"}

\* the elements of a sequence
Range(s) == {s[i] : i \in 1..Len(s)}

RECURSIVE FilterNotClosed(_, _)
\* Pool.clean : keep, in order, the connections whose status is not CLOSED
FilterNotClosed(conns, st) ==
    IF conns = <<>> THEN <<>>
    ELSE IF st[Head(conns)] # "CLOSED"
         THEN <<Head(conns)>> \o FilterNotClosed(Tail(conns), st)
         ELSE FilterNotClosed(Tail(conns), st)

\* number of connections of the sequence in status s
CountStatus(conns, st, s) == Cardinality({i \in 1..Len(conns) : st[conns[i]] = s})

\* Pool.size
PoolSizeOf(conns, st) ==
    [connecting |-> CountStatus(conns, st, "CONNECTING"),
     idle       |-> CountStatus(conns, st, "IDLE"),
     running    |-> CountStatus(conns, st, "RUNNING"),
     closed     |-> CountStatus(conns, st, "CLOSED"),
     total      |-> Len(conns)]

\* mutant of ToCreate : the connections being dialed are not deducted
ToCreateIgnoringConnecting(ps, idleSize, maxSize) ==
    LET m0 == idleSize - ps.idle
        m1 == IF ps.idle + ps.running = 0 THEN 1 ELSE m0
    IN  IF ps.total + m1 > maxSize THEN maxSize - ps.total ELSE m1

\* mutant of OnConnectionStatusChanged : the notify channel is unbuffered,
\* the non-blocking send finds no receiver and the signal is dropped
OnConnectionStatusChangedUnbuffered(c) == c

\* mutant of Missing : the PoolMaxSize clamp is dropped
MissingUncapped(ps, idleSize, maxSize) ==
    IF ps.idle + ps.running = 0 THEN 1 ELSE idleSize - ps.idle

\* mutant of Missing : the PoolMaxSize clamp stops one connection short
MissingClampShort(ps, idleSize, maxSize) ==
    LET m0 == idleSize - ps.idle
        m1 == IF ps.idle + ps.running = 0 THEN 1 ELSE m0
    IN  IF ps.total + m1 >= maxSize THEN maxSize - ps.total - 1 ELSE m1

\* connector : the number of missing idle connections, after the cold-start
\* override and the PoolMaxSize clamp
Missing(ps, idleSize, maxSize) ==
    LET m0 == idleSize - ps.idle
        m1 == IF ps.idle + ps.running = 0 THEN 1 ELSE m0
    IN  IF ps.total + m1 > maxSize THEN maxSize - ps.total ELSE m1

\* connector : connections to open, in-flight ones removed
ToCreate(ps, idleSize, maxSize) == Missing(ps, idleSize, maxSize) - ps.connecting

\* ConnectionStatusListner.onConnectionStatusChanged : non-blocking send on a
\* channel of capacity 1
OnConnectionStatusChanged(c) == IF c < 1 THEN c + 1 ELSE c

\* Pool.connector, under pool.lock
Connector ==
    IF poolDone
    THEN UNCHANGED <<id, poolConnections, cStatus, cPc>>
    ELSE LET filtered == FilterNotClosed(poolConnections, cStatus)
             ps       == PoolSizeOf(filtered, cStatus)
             n        == Max(ToCreate(ps, PoolIdleSize, PoolMaxSize), 0)
             fresh    == (id + 1)..(id + n)
         IN  /\ id + n <= MaxId
             /\ id' = id + n
             /\ poolConnections' = filtered \o [i \in 1..n |-> id + i]
             /\ cStatus' = [c \in Ids |-> IF c \in fresh THEN "CONNECTING" ELSE cStatus[c]]
             /\ cPc' = [c \in Ids |-> IF c \in fresh THEN "connect" ELSE cPc[c]]

\* Pool.start : the bootstrap call of connector()
PoolStart ==
    /\ ~poolStarted
    /\ poolStarted' = TRUE
    /\ replPc' = "select"
    /\ Connector
    /\ UNCHANGED <<PoolIdleSize, PoolMaxSize, poolDone, listenerC, unseen, everUp, cDone, cWs>>
    /\ UNCHANGED <<serverVars, taskVars, queueVars>>

\* Pool.start loop : case <-ticker
ConnectorTick ==
    /\ poolStarted
    /\ replPc = "select"
    /\ Connector
    /\ UNCHANGED <<PoolIdleSize, PoolMaxSize, replPc, poolDone, poolStarted, listenerC, unseen, everUp, cDone, cWs>>
    /\ UNCHANGED <<serverVars, taskVars, queueVars>>

\* Pool.start loop : case <-connectionStatusChanged()
ConnectorWake ==
    /\ poolStarted
    /\ replPc = "select"
    /\ listenerC > 0
    /\ listenerC' = listenerC - 1
    /\ unseen' = 0
    /\ UNCHANGED everUp
    /\ Connector
    /\ UNCHANGED <<PoolIdleSize, PoolMaxSize, replPc, poolDone, poolStarted, cDone, cWs>>
    /\ UNCHANGED <<serverVars, taskVars, queueVars>>

\* Connection.connect succeeds : the websocket is dialed
ConnectOk(c) ==
    /\ cPc[c] = "connect"
    /\ cWs' = [cWs EXCEPT ![c] = "open"]
    /\ cPc' = [cPc EXCEPT ![c] = "initialize"]
    /\ UNCHANGED <<PoolIdleSize, PoolMaxSize, replPc, id, poolConnections, poolDone, poolStarted,
                   listenerC, unseen, everUp, cStatus, cDone>>
    /\ UNCHANGED <<serverVars, taskVars, queueVars>>

\* Connection.initialize succeeds : the greeting is written, serve starts
InitializeOk(c) ==
    /\ cPc[c] = "initialize"
    /\ cWs[c] = "open"
    /\ cPc' = [cPc EXCEPT ![c] = "setIdle"]
    /\ UNCHANGED <<PoolIdleSize, PoolMaxSize, replPc, id, poolConnections, poolDone, poolStarted,
                   listenerC, unseen, everUp, cStatus, cDone, cWs>>
    /\ UNCHANGED <<serverVars, taskVars, queueVars>>

\* Connection.setStatus
SetStatus(c, s) ==
    /\ cStatus' = [cStatus EXCEPT ![c] = s]
    /\ listenerC' = OnConnectionStatusChanged(listenerC)
    /\ unseen' = Min(unseen + 1, MaxUnseen)
    /\ everUp' = (everUp \/ s \in {"IDLE", "RUNNING"})

\* serve : conn.setStatus(IDLE) at the top of the loop
ServeSetIdle(c) ==
    /\ cPc[c] = "setIdle"
    /\ SetStatus(c, "IDLE")
    /\ cPc' = [cPc EXCEPT ![c] = "read"]
    /\ UNCHANGED <<PoolIdleSize, PoolMaxSize, replPc, id, poolConnections, poolDone, poolStarted,
                   cDone, cWs>>
    /\ UNCHANGED <<serverVars, taskVars, queueVars>>

\* Connection.close : under conn.lock, a no-op once done is closed
ConnClose(c) ==
    IF cDone[c]
    THEN UNCHANGED <<cStatus, cDone, cWs>>
    ELSE /\ cStatus' = [cStatus EXCEPT ![c] = "CLOSED"]
         /\ cDone' = [cDone EXCEPT ![c] = TRUE]
         /\ cWs' = [cWs EXCEPT ![c] = IF cWs[c] = "nil" THEN "nil" ELSE "closed"]

\* connect or initialize fails : the task returns
DialFail(c) ==
    /\ cPc[c] \in {"connect", "initialize"}
    /\ cPc' = [cPc EXCEPT ![c] = "exit"]
    /\ UNCHANGED <<PoolIdleSize, PoolMaxSize, replPc, id, poolConnections, poolDone, poolStarted,
                   listenerC, unseen, everUp, cStatus, cDone, cWs>>
    /\ UNCHANGED <<serverVars, taskVars, queueVars>>

\* serve : ReadMessage returns a request (the websocket is open)
ServeRead(c) ==
    /\ cPc[c] = "read"
    /\ cWs[c] = "open"
    /\ cPc' = [cPc EXCEPT ![c] = "setRunning"]
    /\ UNCHANGED <<PoolIdleSize, PoolMaxSize, replPc, id, poolConnections, poolDone, poolStarted,
                   listenerC, unseen, everUp, cStatus, cDone, cWs>>
    /\ UNCHANGED <<serverVars, taskVars, queueVars>>

\* serve : ReadMessage fails (remote close, transport error, or our own close)
ServeReadFail(c) ==
    /\ cPc[c] = "read"
    /\ cPc' = [cPc EXCEPT ![c] = "exit"]
    /\ UNCHANGED <<PoolIdleSize, PoolMaxSize, replPc, id, poolConnections, poolDone, poolStarted,
                   listenerC, unseen, everUp, cStatus, cDone, cWs>>
    /\ UNCHANGED <<serverVars, taskVars, queueVars>>

\* serve : conn.setStatus(RUNNING)
ServeSetRunning(c) ==
    /\ cPc[c] = "setRunning"
    /\ SetStatus(c, "RUNNING")
    /\ cPc' = [cPc EXCEPT ![c] = "exec"]
    /\ UNCHANGED <<PoolIdleSize, PoolMaxSize, replPc, id, poolConnections, poolDone, poolStarted,
                   cDone, cWs>>
    /\ UNCHANGED <<serverVars, taskVars, queueVars>>

\* serve : the request is executed and answered (continue), or a step of
\* the exchange fails (break)
ServeExec(c) ==
    /\ cPc[c] = "exec"
    /\ \E next \in {"setIdle", "exit"} :
          /\ (next = "setIdle" => cWs[c] = "open")
          /\ cPc' = [cPc EXCEPT ![c] = next]
    /\ UNCHANGED <<PoolIdleSize, PoolMaxSize, replPc, id, poolConnections, poolDone, poolStarted,
                   listenerC, unseen, everUp, cStatus, cDone, cWs>>
    /\ UNCHANGED <<serverVars, taskVars, queueVars>>

\* the task's deferred conn.close()
TaskExit(c) ==
    /\ cPc[c] = "exit"
    /\ ConnClose(c)
    /\ cPc' = [cPc EXCEPT ![c] = "gone"]
    /\ UNCHANGED <<PoolIdleSize, PoolMaxSize, replPc, id, poolConnections, poolDone, poolStarted,
                   listenerC, unseen, everUp>>
    /\ UNCHANGED <<serverVars, taskVars, queueVars>>

\* serve keepalive : the PING fails, the keepalive goroutine closes the connection
KeepaliveFail(c) ==
    /\ cPc[c] \in {"setIdle", "read", "setRunning", "exec"}
    /\ ~cDone[c]
    /\ ConnClose(c)
    /\ UNCHANGED <<PoolIdleSize, PoolMaxSize, replPc, id, poolConnections, poolDone, poolStarted,
                   listenerC, unseen, everUp, cPc>>
    /\ UNCHANGED <<serverVars, taskVars, queueVars>>

\* client Pool.close : close(pool.done), then conn.close() on every member
ClientPoolClose ==
    /\ poolStarted
    /\ ~poolDone
    /\ poolDone' = TRUE
    /\ LET members == Range(poolConnections)
           hit     == {c \in members : ~cDone[c]}
       IN  /\ cStatus' = [c \in Ids |-> IF c \in hit THEN "CLOSED" ELSE cStatus[c]]
           /\ cDone' = [c \in Ids |-> IF c \in hit THEN TRUE ELSE cDone[c]]
           /\ cWs' = [c \in Ids |-> IF c \in hit /\ cWs[c] # "nil" THEN "closed" ELSE cWs[c]]
    /\ UNCHANGED <<PoolIdleSize, PoolMaxSize, replPc, id, poolConnections, poolStarted, listenerC, unseen, everUp, cPc>>
    /\ UNCHANGED <<serverVars, taskVars, queueVars>>

\* a break statement with no label ends the innermost for, switch or select
\* statement : in "for { select { case <-done: break ... } }" it ends the
\* select, and the for statement runs its next iteration
Break == "select"

\* Pool.start loop : case <-pool.done
ReplDone ==
    /\ replPc = "select"
    /\ poolDone
    /\ replPc' = "break"
    /\ UNCHANGED <<PoolIdleSize, PoolMaxSize, id, poolConnections, poolDone, poolStarted,
                   listenerC, cStatus, cDone, cWs, cPc, unseen, everUp>>
    /\ UNCHANGED <<serverVars, taskVars, queueVars>>

\* Pool.start loop : the break of case <-pool.done
ReplBreak ==
    /\ replPc = "break"
    /\ replPc' = Break
    /\ UNCHANGED <<PoolIdleSize, PoolMaxSize, id, poolConnections, poolDone, poolStarted,
                   listenerC, cStatus, cDone, cWs, cPc, unseen, everUp>>
    /\ UNCHANGED <<serverVars, taskVars, queueVars>>

(***************************************************************************)
(* Part II : public peer                                                   *)
(*                                                                         *)
(* Tunnels are named 1..NConns, pool objects 1..MaxPools, inbound HTTP     *)
(* requests 1..NReqs.  Tunnels register, and requests arrive, in the order *)
(* of their names (names are interchangeable).  A websocket message is one *)
(* unit: it is sent, queued and read whole.                                *)
(***************************************************************************)
\* Tunnels and requests of the dispatch scenarios (Spec, LiveSpec, SpecDeviant).
MaxConns == 2
MaxReqs == 2
\* Pool objects the server may create, and distinct internal-peer identities.
MaxPools == 2
MaxClients == 1
\* Largest PoolSize a greeting advertises.
MaxPoolSize == 2
\* The clock stops at MaxTime.
MaxTime == 2
\* Largest Config.Timeout explored (0 : no deadline).
MaxTimeout == 1
\* Tunnels of the GC scenario (SpecGC) and of the stack scenario (SpecStack).
GCConns == 5
StackConns == 3
StackReqs == 3

\* Tunnels and requests of the handler-front scenario (SpecFront).
FrontConns == 1
FrontReqs == 2
\* Tunnels of the secret scenario (SpecRegister).
RegisterConns == 2

\* server Config.IdleTimeout, in clock ticks
IdleTimeout == 1

NConns == Max(Max(MaxConns, GCConns), StackConns)
NReqs == Max(MaxReqs, StackReqs)
Conns == 1..NConns
Reqs == 1..NReqs
Pools == 1..MaxPools
ClientIds == 1..MaxClients

\* a websocket message : its frame type and what it carries
Msg(t, payload) == [t |-> t, payload |-> payload]
NoMsg == Msg("NONE", "none")

\* the four frames of an exchange, with their direction
FourFrames == << <<"down", "TEXT">>, <<"down", "BINARY">>, <<"up", "TEXT">>, <<"up", "BINARY">> >>

\* mutant of Older : a tunnel idle for exactly IdleTimeout passes for older
OlderOrAsOld(since) == now - since >= IdleTimeout

\* time.Since(idleSince) > Config.IdleTimeout
Older(since) == now - since > IdleTimeout

\* members of pool p in status IDLE
IdleOf(p) == {c \in pConns[p] : status[c] = "IDLE"}

\* positions of the /request handler inside getConnection
AcquirePcs == {"count", "build", "select", "take"}
\* positions of the /request handler inside proxyRequest
ProxyPcs == {"writeHdr", "writeBody", "askHdr", "readHdr", "askBody", "readBody"}

(***************************************************************************)
(* ConnectionStack                                                         *)
(***************************************************************************)
\* mutant of StackPush : the new tunnel goes under the top
StackPushUnder(top, conns, last) == [top |-> top, connections |-> Append(conns, last)]

\* run, case last := <-stack.in : the top goes to the sequence, last becomes the top
StackPush(top, conns, last) ==
    IF top = 0 THEN [top |-> last, connections |-> conns]
    ELSE [top |-> last, connections |-> Append(conns, top)]

\* mutant of StackPop : the oldest stored tunnel becomes the top
StackPopOldest(conns) ==
    IF Len(conns) > 0
    THEN [top |-> Head(conns), connections |-> Tail(conns)]
    ELSE [top |-> 0, connections |-> <<>>]

\* run, case stack.out <- top : the last stored tunnel becomes the top
StackPop(conns) ==
    IF Len(conns) > 0
    THEN [top |-> conns[Len(conns)], connections |-> SubSeq(conns, 1, Len(conns) - 1)]
    ELSE [top |-> 0, connections |-> <<>>]

\* a sequence without the element c
RECURSIVE Without(_, _)
Without(s, c) ==
    IF s = <<>> THEN <<>>
    ELSE IF Head(s) = c THEN Without(Tail(s), c)
         ELSE <<Head(s)>> \o Without(Tail(s), c)

\* run : a tunnel is received from stack.in.  The sender is the offer of a
\* release (a goroutine) or Pool.register, which then returns and unlocks
\* Pool.lock and Server.lock.
StackIn(p, c) ==
    /\ sRun[p]
    /\ c \in offers[p]
    /\ LET st == StackPush(sTop[p], sConns[p], c)
       IN  /\ sTop' = [sTop EXCEPT ![p] = st.top]
           /\ sConns' = [sConns EXCEPT ![p] = st.connections]
    /\ offers' = [offers EXCEPT ![p] = @ \ {c}]
    /\ sOrder' = [sOrder EXCEPT ![p] = Append(@, c)]
    /\ IF regPc[c] = "offer"
       THEN /\ regPc' = [regPc EXCEPT ![c] = "done"]
            /\ pLock' = [pLock EXCEPT ![p] = "free"]
            /\ serverLock' = 0
       ELSE UNCHANGED <<regPc, pLock, serverLock>>
    /\ UNCHANGED <<queueVars, clientVars, cfgVars, taskVars, now, pools, pClient, pSize, pDone, pConns, sDone, sRun,
                   gcVars, status, idleSince, cPool, rdPc, wireVars, intVars, reqVars>>

\* run : stack.done is closed, the coordinator returns
StackExit(p) ==
    /\ sRun[p]
    /\ sDone[p]
    /\ sRun' = [sRun EXCEPT ![p] = FALSE]
    /\ UNCHANGED <<queueVars, clientVars, cfgVars, taskVars, now, srvVars, poolVars, sTop, sConns, sDone, offers, sOrder,
                   gcVars, connVars, wireVars, intVars, reqVars>>

\* the coordinator is parked on its second select, sending its top on stack.out
StackReady(p) == sRun[p] /\ sTop[p] # 0

(***************************************************************************)
(* server Connection                                                       *)
(***************************************************************************)
\* mutant of Take : a CLOSED tunnel is taken
TakeClosed(st) == IF st = "BUSY" THEN [ok |-> FALSE, status |-> st]
                  ELSE [ok |-> TRUE, status |-> "BUSY"]

\* Connection.Take, under the connection lock
Take(st) ==
    IF st = "CLOSED" THEN [ok |-> FALSE, status |-> st]
    ELSE IF st = "BUSY" THEN [ok |-> FALSE, status |-> st]
    ELSE [ok |-> TRUE, status |-> "BUSY"]

\* mutant of CloseStatus : the close reaches every tunnel
CloseStatusAll(st, c) == [d \in DOMAIN st |-> "CLOSED"]

\* Connection.Close : nextResponse is closed, the websocket is closed (the
\* actions set link to "down" and empty the inbound queue), the status
\* becomes CLOSED; a no-op on a CLOSED connection
CloseStatus(st, c) == [st EXCEPT ![c] = "CLOSED"]

\* nextResponse is closed by Close
NextResponseClosed(c) == status[c] = "CLOSED"

(***************************************************************************)
(* /register and the pool                                                  *)
(***************************************************************************)
\* the pool of server.pools registered for the client id, if any
PoolFor(cid) == {p \in pools : pClient[p] = cid}
\* pool objects never created
FreshPools == {p \in Pools : pClient[p] = 0}

\* Server.register : the X-SECRET-KEY header is compared with Config.SecretKey
SecretOk(key, configured) == key = configured

\* Server.register : the secret differs; ProxyErrorf answers 526 and the
\* handler returns before the upgrade
RegisterRefuse(c) ==
    /\ c <= nConns
    /\ regPc[c] = "none"
    /\ \A d \in 1..(c - 1) : regPc[d] # "none"
    /\ ~SecretOk(regKey[c], SecretKey)
    /\ regPc' = [regPc EXCEPT ![c] = "refused"]
    /\ UNCHANGED <<queueVars, clientVars, cfgVars, taskVars, now, srvVars, poolVars, stackVars, gcVars, status,
                   idleSince, cPool, rdPc, wireVars, intVars, reqVars>>

\* Server.register, the secret accepted, from server.lock.Lock() : find the
\* client's pool or create it (NewPool starts its stack and its GC
\* goroutine; a watcher waits for pool.done)
RegisterLock(c, cid, size) ==
    /\ c <= nConns
    /\ regPc[c] = "none"
    /\ \A d \in 1..(c - 1) : regPc[d] # "none"
    /\ SecretOk(regKey[c], SecretKey)
    /\ serverLock = 0
    /\ serverLock' = c
    /\ regPc' = [regPc EXCEPT ![c] = "register"]
    /\ IF PoolFor(cid) # {}
       THEN /\ cPool' = [cPool EXCEPT ![c] = CHOOSE p \in PoolFor(cid) : TRUE]
            /\ UNCHANGED <<pools, pClient, pSize, sRun, gcPc>>
       ELSE /\ FreshPools # {}
            /\ LET p == CHOOSE q \in FreshPools : \A q2 \in FreshPools : q <= q2
               IN  /\ cPool' = [cPool EXCEPT ![c] = p]
                   /\ pools' = pools \cup {p}
                   /\ pClient' = [pClient EXCEPT ![p] = cid]
                   /\ pSize' = [pSize EXCEPT ![p] = size]
                   /\ sRun' = [sRun EXCEPT ![p] = TRUE]
                   /\ gcPc' = [gcPc EXCEPT ![p] = "idle"]
    /\ UNCHANGED <<queueVars, clientVars, cfgVars, taskVars, now, pDone, pConns, pLock, sTop, sConns, sDone, offers,
                   sOrder, gcTodo, gcIdle, gcHit, gcQuiet, gcIdle0, status, idleSince, rdPc,
                   wireVars, intVars, reqVars>>

\* Pool.register, from pool.lock.Lock() : a closed pool drops the tunnel;
\* else the tunnel is created IDLE, added to pool.connections, its reader
\* and its watcher start, and pool.offer blocks sending on stack.in
PoolRegister(c) ==
    /\ regPc[c] = "register"
    /\ pLock[cPool[c]] = "free"
    /\ LET p == cPool[c]
       IN  IF pDone[p]
           THEN /\ regPc' = [regPc EXCEPT ![c] = "dropped"]
                /\ serverLock' = 0
                /\ UNCHANGED <<pLock, pConns, offers, status, idleSince, rdPc, iPc>>
           ELSE /\ regPc' = [regPc EXCEPT ![c] = "offer"]
                /\ pLock' = [pLock EXCEPT ![p] = "register"]
                /\ pConns' = [pConns EXCEPT ![p] = @ \cup {c}]
                /\ offers' = [offers EXCEPT ![p] = @ \cup {c}]
                /\ status' = [status EXCEPT ![c] = "IDLE"]
                /\ idleSince' = [idleSince EXCEPT ![c] = now]
                /\ rdPc' = [rdPc EXCEPT ![c] = "next"]
                /\ iPc' = [iPc EXCEPT ![c] = "read"]
                /\ UNCHANGED serverLock
    /\ UNCHANGED <<queueVars, clientVars, cfgVars, taskVars, now, pools, pClient, pSize, pDone, sTop, sConns, sDone,
                   sRun, sOrder, gcVars, cPool, wireVars, iCode, iBreak, reqVars>>

\* the watcher of Pool.register : connection closed, delete it from pool.connections
ConnWatcher(c) ==
    /\ status[c] = "CLOSED"
    /\ c \in pConns[cPool[c]]
    /\ pLock[cPool[c]] = "free"
    /\ pConns' = [pConns EXCEPT ![cPool[c]] = @ \ {c}]
    /\ UNCHANGED <<queueVars, clientVars, cfgVars, taskVars, now, srvVars, pClient, pSize, pDone, pLock, stackVars, gcVars,
                   connVars, wireVars, intVars, reqVars>>

\* the watcher of Server.register : pool.done closed, delete the pool from server.pools
PoolWatcher(p) ==
    /\ pDone[p]
    /\ p \in pools
    /\ serverLock = 0
    /\ pools' = pools \ {p}
    /\ UNCHANGED <<queueVars, clientVars, cfgVars, taskVars, now, serverLock, poolVars, stackVars, gcVars, connVars,
                   wireVars, intVars, reqVars>>

\* the clock advances
Tick ==
    /\ now < MaxTime
    /\ now' = now + 1
    /\ UNCHANGED <<queueVars, clientVars, cfgVars, taskVars, srvVars, poolVars, stackVars, gcVars, connVars, wireVars,
                   intVars, reqVars>>

(***************************************************************************)
(* Pool.clean, one pass of the GC goroutine                                *)
(***************************************************************************)
\* mutant of Keep : one tunnel more than PoolSize is kept
KeepOneMore(idle, size) == idle <= size + 1

\* clean : "if idle <= pool.clientSettings.PoolSize { continue }"
Keep(idle, size) == idle <= size

\* mutant of NoMember : a pool with one member passes for empty
NoMemberButOne(conns) == Cardinality(conns) <= 1

\* clean : "if len(pool.connections) == 0"
NoMember(conns) == Cardinality(conns) = 0

\* the ticker fires and clean locks the pool : an empty pool is closed, its
\* done channel and its stack.  The loop's select then finds pool.done, a
\* second at least before the next tick, and the GC goroutine ends.
GCCloseEmpty(p) ==
    /\ gcPc[p] = "idle"
    /\ ~pDone[p]
    /\ pLock[p] = "free"
    /\ NoMember(pConns[p])
    /\ pDone' = [pDone EXCEPT ![p] = TRUE]
    /\ sDone' = [sDone EXCEPT ![p] = TRUE]
    /\ gcPc' = [gcPc EXCEPT ![p] = "exit"]
    /\ pCloses' = [pCloses EXCEPT ![p] = @ + 1]
    /\ sCloses' = [sCloses EXCEPT ![p] = @ + 1]
    /\ UNCHANGED <<queueVars, clientVars, cfgVars, serverDone, statsPc, shPc, shTodo, panicked, now, srvVars,
                   pClient, pSize, pConns, pLock, sTop,
                   sConns, sRun, offers, sOrder, gcTodo, gcIdle, gcHit, gcQuiet, gcIdle0,
                   connVars, wireVars, intVars, reqVars>>

\* the ticker fires and clean locks a pool that has members : the range
\* loop starts
GCStart(p) ==
    /\ gcPc[p] = "idle"
    /\ ~pDone[p]
    /\ pLock[p] = "free"
    /\ ~NoMember(pConns[p])
    /\ pLock' = [pLock EXCEPT ![p] = "gc"]
    /\ gcPc' = [gcPc EXCEPT ![p] = "run"]
    /\ gcTodo' = [gcTodo EXCEPT ![p] = pConns[p]]
    /\ gcIdle' = [gcIdle EXCEPT ![p] = 0]
    /\ gcQuiet' = [gcQuiet EXCEPT ![p] = \A c \in IdleOf(p) : Older(idleSince[c])]
    /\ gcIdle0' = [gcIdle0 EXCEPT ![p] = Cardinality(IdleOf(p))]
    /\ UNCHANGED <<queueVars, clientVars, cfgVars, taskVars, now, srvVars, pClient, pSize, pDone, pConns,
                   stackVars, gcHit, connVars, wireVars, intVars, reqVars>>

\* clean : the range loop visits one member (a map is ranged in any order)
GCVisit(p, c) ==
    /\ gcPc[p] = "run"
    /\ gcHit[p] = 0
    /\ c \in gcTodo[p]
    /\ gcTodo' = [gcTodo EXCEPT ![p] = @ \ {c}]
    /\ IF status[c] # "IDLE"
       THEN UNCHANGED <<gcIdle, gcHit>>
       ELSE /\ gcIdle' = [gcIdle EXCEPT ![p] = @ + 1]
            /\ IF ~Keep(gcIdle[p] + 1, pSize[p]) /\ Older(idleSince[c])
               THEN gcHit' = [gcHit EXCEPT ![p] = c]
               ELSE UNCHANGED gcHit
    /\ UNCHANGED <<queueVars, clientVars, cfgVars, taskVars, now, srvVars, poolVars, stackVars, gcPc, gcQuiet, gcIdle0,
                   connVars, wireVars, intVars, reqVars>>

\* clean : conn.close() on the member found idle for too long
GCClose(p) ==
    /\ gcPc[p] = "run"
    /\ gcHit[p] # 0
    /\ status' = CloseStatus(status, gcHit[p])
    /\ link' = [link EXCEPT ![gcHit[p]] = "down"]
    /\ up' = [up EXCEPT ![gcHit[p]] = <<>>]
    /\ gcHit' = [gcHit EXCEPT ![p] = 0]
    /\ UNCHANGED <<queueVars, clientVars, cfgVars, taskVars, now, srvVars, poolVars, stackVars, gcPc, gcTodo, gcIdle, gcQuiet,
                   gcIdle0, idleSince, cPool, rdPc, regPc, down, frames, intVars, reqVars>>

\* clean returns and unlocks the pool
GCEnd(p) ==
    /\ gcPc[p] = "run"
    /\ gcHit[p] = 0
    /\ gcTodo[p] = {}
    /\ gcPc' = [gcPc EXCEPT ![p] = "idle"]
    /\ pLock' = [pLock EXCEPT ![p] = "free"]
    /\ UNCHANGED <<queueVars, clientVars, cfgVars, taskVars, now, srvVars, pClient, pSize, pDone, pConns, stackVars, gcTodo,
                   gcIdle, gcHit, gcQuiet, gcIdle0, connVars, wireVars, intVars, reqVars>>

\* the GC goroutine of NewPool : case <-pool.done, break LOOP
GCExit(p) ==
    /\ gcPc[p] = "idle"
    /\ pDone[p]
    /\ gcPc' = [gcPc EXCEPT ![p] = "exit"]
    /\ UNCHANGED <<queueVars, clientVars, cfgVars, taskVars, now, srvVars, poolVars, stackVars, gcTodo, gcIdle,
                   gcHit, gcQuiet, gcIdle0, connVars, wireVars, intVars, reqVars>>

\* the ticker fired while Pool.close held the lock, or the select took the
\* ticker case though pool.done was ready as well : clean locks a pool
\* that is closed and finds it empty; close(pool.done) on the closed
\* channel panics, in a goroutine that recovers nothing
GCCloseAgain(p) ==
    /\ ~panicked
    /\ gcPc[p] = "idle"
    /\ pDone[p]
    /\ pLock[p] = "free"
    /\ NoMember(pConns[p])
    /\ pCloses' = [pCloses EXCEPT ![p] = @ + 1]
    /\ panicked' = TRUE
    /\ gcPc' = [gcPc EXCEPT ![p] = "exit"]
    /\ UNCHANGED <<queueVars, clientVars, cfgVars, serverDone, statsPc, shPc, shTodo, sCloses, now, srvVars,
                   poolVars, stackVars, gcTodo, gcIdle, gcHit, gcQuiet, gcIdle0, connVars,
                   wireVars, intVars, reqVars>>

(***************************************************************************)
(* Server.Start, the stats goroutine, and Server.Shutdown                  *)
(***************************************************************************)
\* the stats loop : case <-server.done
StatsDone ==
    /\ statsPc = "select"
    /\ serverDone
    /\ statsPc' = "break"
    /\ UNCHANGED <<queueVars, clientVars, serverVars, serverDone, shPc, shTodo, pCloses, sCloses, panicked>>

\* the stats loop : the break of case <-server.done
StatsBreak ==
    /\ statsPc = "break"
    /\ statsPc' = Break
    /\ UNCHANGED <<queueVars, clientVars, serverVars, serverDone, shPc, shTodo, pCloses, sCloses, panicked>>

\* Shutdown, from server.lock.Lock() : close(server.done); the range loop
\* over server.pools starts
ShutdownLock ==
    /\ shPc = "none"
    /\ serverLock = 0
    /\ serverLock' = -1
    /\ serverDone' = TRUE
    /\ shPc' = "pools"
    /\ shTodo' = pools
    /\ UNCHANGED <<queueVars, clientVars, cfgVars, statsPc, pCloses, sCloses, panicked, now, pools, poolVars,
                   stackVars, gcVars,
                   connVars, wireVars, intVars, reqVars>>

\* Shutdown : pool.close() on one pool, from pool.lock.Lock() : a closed
\* pool is left alone, else pool.done and the stack are closed and every
\* member is closed
ShutdownPool(p) ==
    /\ ~panicked
    /\ shPc = "pools"
    /\ p \in shTodo
    /\ pLock[p] = "free"
    /\ shTodo' = shTodo \ {p}
    /\ IF pDone[p]
       THEN UNCHANGED <<pDone, sDone, status, link, up, pCloses, sCloses>>
       ELSE /\ pDone' = [pDone EXCEPT ![p] = TRUE]
            /\ sDone' = [sDone EXCEPT ![p] = TRUE]
            /\ pCloses' = [pCloses EXCEPT ![p] = @ + 1]
            /\ sCloses' = [sCloses EXCEPT ![p] = @ + 1]
            /\ status' = [c \in Conns |-> IF c \in pConns[p] THEN "CLOSED" ELSE status[c]]
            /\ link' = [c \in Conns |-> IF c \in pConns[p] THEN "down" ELSE link[c]]
            /\ up' = [c \in Conns |-> IF c \in pConns[p] THEN <<>> ELSE up[c]]
    /\ UNCHANGED <<queueVars, clientVars, cfgVars, serverDone, statsPc, shPc, panicked, now, srvVars, pClient, pSize,
                   pConns, pLock, sTop, sConns, sRun, offers, sOrder, gcVars, idleSince, cPool,
                   rdPc, regPc, down, frames, intVars, reqVars>>

\* Shutdown returns and unlocks the server (a process that has panicked
\* runs no further statement of Shutdown)
ShutdownEnd ==
    /\ ~panicked
    /\ shPc = "pools"
    /\ shTodo = {}
    /\ shPc' = "done"
    /\ serverLock' = 0
    /\ UNCHANGED <<queueVars, clientVars, cfgVars, serverDone, statsPc, shTodo, pCloses, sCloses, panicked, now,
                   pools, poolVars,
                   stackVars, gcVars, connVars, wireVars, intVars, reqVars>>

\* Shutdown called again, from server.lock.Lock() : server.IsClosed()
ShutdownAgain ==
    /\ ~panicked
    /\ shPc = "done"
    /\ serverLock = 0
    /\ serverDone
    /\ serverLock' = -1
    /\ shPc' = "again"
    /\ UNCHANGED <<queueVars, clientVars, cfgVars, serverDone, statsPc, shTodo, pCloses, sCloses, panicked, now,
                   pools, poolVars, stackVars, gcVars, connVars, wireVars, intVars, reqVars>>

\* the second call returns at "if server.IsClosed()" and unlocks the server
ShutdownAgainEnd ==
    /\ ~panicked
    /\ shPc = "again"
    /\ shPc' = "done"
    /\ serverLock' = 0
    /\ UNCHANGED <<queueVars, clientVars, cfgVars, serverDone, statsPc, shTodo, pCloses, sCloses, panicked, now,
                   pools, poolVars, stackVars, gcVars, connVars, wireVars, intVars, reqVars>>

(***************************************************************************)
(* Connection.read, the reader goroutine of a tunnel                       *)
(***************************************************************************)
\* the loop top and ws.NextReader : a CLOSED status or a read error ends the
\* reader; a message received while the tunnel is not BUSY ends it too; the
\* deferred Close closes the tunnel.  Else the reader keeps the message for
\* proxyRequest.
ReaderNext(c) ==
    /\ rdPc[c] = "next"
    /\ \/ status[c] = "CLOSED"
       \/ up[c] # <<>>
       \/ link[c] = "down"
    /\ IF status[c] = "BUSY" /\ up[c] # <<>>
       THEN /\ rdPc' = [rdPc EXCEPT ![c] = "recv"]
            /\ UNCHANGED <<status, link, up>>
       ELSE /\ rdPc' = [rdPc EXCEPT ![c] = "exit"]
            /\ status' = CloseStatus(status, c)
            /\ link' = [link EXCEPT ![c] = "down"]
            /\ up' = [up EXCEPT ![c] = <<>>]
    /\ UNCHANGED <<queueVars, clientVars, cfgVars, taskVars, now, srvVars, poolVars, stackVars, gcVars, idleSince, cPool,
                   regPc, down, frames, intVars, reqVars>>

\* c := <-connection.nextResponse returns nil : Close closed the channel
ReaderUnblock(c) ==
    /\ rdPc[c] = "recv"
    /\ NextResponseClosed(c)
    /\ rdPc' = [rdPc EXCEPT ![c] = "exit"]
    /\ UNCHANGED <<queueVars, clientVars, cfgVars, taskVars, now, srvVars, poolVars, stackVars, gcVars, status, idleSince,
                   cPool, regPc, wireVars, intVars, reqVars>>

(***************************************************************************)
(* common.Rule and common.RequestValidator                                 *)
(*                                                                         *)
(* A request is a record [Method, URL, Header]; Header maps the names of   *)
(* the headers present to their values.  A rule is a record [Method, URL,  *)
(* Headers] of regular expressions in source form ("" : none given).       *)
(***************************************************************************)
\* Longest Blacklist / Whitelist of the validator scenario.
MaxRules == 2
\* Tunnels of the shutdown scenario.
DownConns == 2
\* Tunnels of the scenario in which pools empty out.
EmptyConns == 2
\* Tunnels and requests of the scenario with unsolicited frames.
UnsolicitedConns == 1
UnsolicitedReqs == 2
\* Tunnels and requests of the release scenario.
ReleaseConns == 1
ReleaseReqs == 2
\* the isolation scenarios : tunnels, requests and internal peers
IsolationConns == 2
IsolationReqs == 1
IsolationClients == 2
IsolationIdleSize == 2
\* the shutdown scenario : tunnels, requests and internal peers
ShutdownConns == 2
ShutdownReqs == 1
ShutdownClients == 2
\* the scenario of the GC beside the dispatcher : tunnels and requests
ReapConns == 2
ReapReqs == 1
\* the scenario of the offers : tunnels and requests
OfferConns == 1
OfferReqs == 2

\* the strings of the scenarios : methods, destinations, header values
Methods == {"GET", "POST"}
Urls == {"http://h/a", "http://h/b"}
HeaderNames == {"X-Auth"}
HeaderValues == {"tok"}
Strings == Methods \cup Urls \cup HeaderValues \cup {""}

\* Rule.Compile : the regular expressions of the scenarios, each with the
\* strings it matches (the empty expression matches every string)
Lang(re) ==
    CASE re = ""       -> Strings
      [] re = "^GET$"  -> {"GET"}
      [] re = "/b$"    -> {"http://h/b"}
      [] re = "^tok$"  -> {"tok"}
      [] re = "^$"     -> {""}
      [] OTHER         -> {}

\* Regexp.MatchString
MatchString(re, s) == s \in Lang(re)

\* http.Header.Get : the empty string for an absent header
HeaderGet(header, name) == IF name \in DOMAIN header THEN header[name] ELSE ""

\* Rule.Match : methodRegex and urlRegex are nil when no expression is given
RuleMatch(rule, req) ==
    IF rule.Method # "" /\ ~MatchString(rule.Method, req.Method) THEN FALSE
    ELSE IF rule.URL # "" /\ ~MatchString(rule.URL, req.URL) THEN FALSE
    ELSE \A h \in DOMAIN rule.Headers :
            MatchString(rule.Headers[h], HeaderGet(req.Header, h))

RECURSIVE FirstMatch(_, _)
\* the range loops of Validate : the index of the first rule that matches (0 : none)
FirstMatch(rules, req) ==
    IF rules = <<>> THEN 0
    ELSE IF RuleMatch(Head(rules), req) THEN 1
    ELSE LET n == FirstMatch(Tail(rules), req) IN IF n = 0 THEN 0 ELSE n + 1

\* mutant of Validate : the whitelist is applied before the blacklist
ValidateWhitelistFirst(bl, wl, req) ==
    IF Len(wl) > 0 /\ FirstMatch(wl, req) > 0 THEN "nil"
    ELSE IF Len(bl) > 0 /\ FirstMatch(bl, req) > 0 THEN "forbidden"
    ELSE IF Len(wl) > 0 THEN "notallowed"
    ELSE "nil"

\* RequestValidator.Validate : "nil", or the error "Destination is forbidden" /
\* "Destination is not allowed"
Validate(bl, wl, req) ==
    IF Len(bl) > 0 /\ FirstMatch(bl, req) > 0 THEN "forbidden"
    ELSE IF Len(wl) > 0
         THEN IF FirstMatch(wl, req) > 0 THEN "nil" ELSE "notallowed"
         ELSE "nil"

(***************************************************************************)
(* Server.request and Server.getConnection, the dispatcher                 *)
(***************************************************************************)
\* requests holding tunnel c inside proxyRequest
Holders(c) == {r \in Reqs : rConn[r] = c /\ rPc[r] \in ProxyPcs}

\* mutant of GetTimeout : no timer whatever Config.Timeout
GetTimeoutNil(t) == "nil"

\* getTimeout : time.After when Config.Timeout > 0, else a nil channel
GetTimeout(t) == IF t > 0 THEN "armed" ELSE "nil"

\* the X-PROXY-DESTINATION values of the scenarios ("" : the header is missing)
Dsts == {"", "%zz", "HTTP://h/a"} \cup Urls

\* url.Parse, then URL.String : an invalid escape is an error, the scheme
\* is lower-cased
UrlParse(dst) ==
    CASE dst = "%zz"        -> [err |-> TRUE, url |-> ""]
      [] dst = "HTTP://h/a" -> [err |-> FALSE, url |-> "http://h/a"]
      [] OTHER              -> [err |-> FALSE, url |-> dst]

\* the request as the validator sees it : req.URL is the parsed destination
Rewritten(r) == [Method |-> rMethod[r], URL |-> UrlParse(rDst[r]).url, Header |-> rHeader[r]]

\* mutant of RequestError : the validator is not consulted
RequestErrorNoValidator(r) ==
    IF rDst[r] = "" THEN "missing"
    ELSE IF UrlParse(rDst[r]).err THEN "unparsable"
    ELSE "nil"

\* Server.request, up to getConnection : the error reported with ProxyErrorf
\* ("nil" : none)
RequestError(r) ==
    IF rDst[r] = "" THEN "missing"
    ELSE IF UrlParse(rDst[r]).err THEN "unparsable"
    ELSE Validate(Blacklist, Whitelist, Rewritten(r))

\* Server.request : the destination header is missing or unparsable, or the
\* validator rejects the request; ProxyErrorf answers 526 and the handler returns
RequestReject(r) ==
    /\ r <= nReqs
    /\ rPc[r] = "new"
    /\ \A q \in 1..(r - 1) : rPc[q] # "new"
    /\ RequestError(r) # "nil"
    /\ rPc' = [rPc EXCEPT ![r] = "done"]
    /\ outcome' = [outcome EXCEPT ![r] = RequestError(r)]
    /\ committed' = [committed EXCEPT ![r] = TRUE]
    /\ respStatus' = [respStatus EXCEPT ![r] = 526]
    /\ UNCHANGED <<queueVars, clientVars, cfgVars, taskVars, now, srvVars, poolVars, stackVars, gcVars, connVars, wireVars,
                   intVars, timer, rCases, rConn, rFrame, rFrames, rFailed, rWrong>>

\* a /request arrives and passes the header checks; getConnection starts
\* with getTimeout
Arrive(r) ==
    /\ r <= nReqs
    /\ rPc[r] = "new"
    /\ \A q \in 1..(r - 1) : rPc[q] # "new"
    /\ RequestError(r) = "nil"
    /\ rPc' = [rPc EXCEPT ![r] = "count"]
    /\ timer' = [timer EXCEPT ![r] = GetTimeout(Timeout)]
    /\ UNCHANGED <<queueVars, clientVars, cfgVars, taskVars, now, srvVars, poolVars, stackVars, gcVars, connVars, wireVars,
                   intVars, rCases, rConn, rFrame, committed, respStatus, outcome, rFrames,
                   rFailed, rWrong>>

\* the time.After timer of an acquiring request fires
TimerFire(r) ==
    /\ rPc[r] \in AcquirePcs
    /\ timer[r] = "armed"
    /\ timer' = [timer EXCEPT ![r] = "fired"]
    /\ UNCHANGED <<queueVars, clientVars, cfgVars, taskVars, now, srvVars, poolVars, stackVars, gcVars, connVars, wireVars,
                   intVars, rPc, rCases, rConn, rFrame, committed, respStatus, outcome,
                   rFrames, rFailed, rWrong>>

\* getConnection returns nil : request answers with ProxyError
NoTunnel(r) ==
    /\ rPc' = [rPc EXCEPT ![r] = "done"]
    /\ outcome' = [outcome EXCEPT ![r] = "notunnel"]
    /\ committed' = [committed EXCEPT ![r] = TRUE]
    /\ respStatus' = [respStatus EXCEPT ![r] = 526]
    /\ timer' = [timer EXCEPT ![r] = IF @ = "fired" THEN "consumed" ELSE @]
    /\ rCases' = [rCases EXCEPT ![r] = {}]

\* getConnection, loop top : poolCount read under RLock.  With no pool, the
\* select returns nil once the timer has fired, else sleeps and tries again.
CountPools(r) ==
    /\ rPc[r] = "count"
    /\ serverLock = 0
    /\ IF pools = {}
       THEN /\ timer[r] = "fired"
            /\ NoTunnel(r)
       ELSE /\ rPc' = [rPc EXCEPT ![r] = "build"]
            /\ UNCHANGED <<timer, rCases, committed, respStatus, outcome>>
    /\ UNCHANGED <<queueVars, clientVars, cfgVars, taskVars, now, srvVars, poolVars, stackVars, gcVars, connVars, wireVars,
                   intVars, rConn, rFrame, rFrames, rFailed, rWrong>>

\* getConnection : one receive case per pool of server.pools, under RLock
BuildCases(r) ==
    /\ rPc[r] = "build"
    /\ serverLock = 0
    /\ rCases' = [rCases EXCEPT ![r] = pools]
    /\ rPc' = [rPc EXCEPT ![r] = "select"]
    /\ UNCHANGED <<queueVars, clientVars, cfgVars, taskVars, now, srvVars, poolVars, stackVars, gcVars, connVars, wireVars,
                   intVars, timer, rConn, rFrame, committed, respStatus, outcome, rFrames,
                   rFailed, rWrong>>

\* reflect.Select receives the top of a stack (run : case stack.out <- top)
SelectRecv(r, p) ==
    /\ rPc[r] = "select"
    /\ p \in rCases[r]
    /\ StackReady(p)
    /\ rConn' = [rConn EXCEPT ![r] = sTop[p]]
    /\ rPc' = [rPc EXCEPT ![r] = "take"]
    /\ LET st == StackPop(sConns[p])
       IN  /\ sTop' = [sTop EXCEPT ![p] = st.top]
           /\ sConns' = [sConns EXCEPT ![p] = st.connections]
    /\ sOrder' = [sOrder EXCEPT ![p] = Without(@, sTop[p])]
    /\ rCases' = [rCases EXCEPT ![r] = {}]
    /\ UNCHANGED <<queueVars, clientVars, cfgVars, taskVars, now, srvVars, poolVars, sDone, sRun, offers, gcVars, connVars,
                   wireVars, intVars, timer, rFrame, committed, respStatus, outcome,
                   rFrames, rFailed, rWrong>>

\* reflect.Select chooses the last case, the timeout channel : return nil
SelectTimeout(r) ==
    /\ rPc[r] = "select"
    /\ timer[r] = "fired"
    /\ NoTunnel(r)
    /\ UNCHANGED <<queueVars, clientVars, cfgVars, taskVars, now, srvVars, poolVars, stackVars, gcVars, connVars, wireVars,
                   intVars, rConn, rFrame, rFrames, rFailed, rWrong>>

\* reflect.Select chooses the last case, SelectDefault : no stack is ready
\* to send; "chosen == len(cases)-1", return nil
SelectDefault(r) ==
    /\ rPc[r] = "select"
    /\ timer[r] = "nil"
    /\ \A p \in rCases[r] : ~StackReady(p)
    /\ NoTunnel(r)
    /\ UNCHANGED <<queueVars, clientVars, cfgVars, taskVars, now, srvVars, poolVars, stackVars, gcVars, connVars, wireVars,
                   intVars, rConn, rFrame, rFrames, rFailed, rWrong>>

\* connection.take() on the received tunnel : on success getConnection
\* returns it (its timer is no longer referenced), else the loop starts again
TakeStep(r) ==
    /\ rPc[r] = "take"
    /\ LET c == rConn[r]
           t == Take(status[c])
       IN  /\ status' = [status EXCEPT ![c] = t.status]
           /\ IF t.ok
              THEN /\ rPc' = [rPc EXCEPT ![r] = "writeHdr"]
                   /\ timer' = [timer EXCEPT ![r] = "nil"]
                   /\ UNCHANGED rConn
              ELSE /\ rPc' = [rPc EXCEPT ![r] = "count"]
                   /\ rConn' = [rConn EXCEPT ![r] = 0]
                   /\ UNCHANGED timer
    /\ UNCHANGED <<queueVars, clientVars, cfgVars, taskVars, now, srvVars, poolVars, stackVars, gcVars, idleSince, cPool,
                   rdPc, regPc, wireVars, intVars, rCases, rFrame, committed,
                   respStatus, outcome, rFrames, rFailed, rWrong>>

(***************************************************************************)
(* Connection.proxyRequest, on the tunnel the request holds                *)
(***************************************************************************)
\* request, "if err != nil" : proxyRequest returned an error; the tunnel is
\* closed and ProxyError answers 526 unless the headers are already sent
ProxyFail(r) ==
    /\ rPc' = [rPc EXCEPT ![r] = "done"]
    /\ outcome' = [outcome EXCEPT ![r] = "error"]
    /\ committed' = [committed EXCEPT ![r] = TRUE]
    /\ respStatus' = [respStatus EXCEPT ![r] = IF committed[r] THEN @ ELSE 526]
    /\ status' = CloseStatus(status, rConn[r])
    /\ link' = [link EXCEPT ![rConn[r]] = "down"]
    /\ up' = [up EXCEPT ![rConn[r]] = <<>>]

\* ws.WriteMessage(TextMessage, jsonReq)
WriteHdr(r) ==
    /\ rPc[r] = "writeHdr"
    /\ LET c == rConn[r]
       IN  IF link[c] = "up"
           THEN /\ down' = [down EXCEPT ![c] = Append(@, Msg("TEXT", "req"))]
                /\ frames' = [frames EXCEPT ![c] = Append(@, <<"down", "TEXT">>)]
                /\ rPc' = [rPc EXCEPT ![r] = "writeBody"]
                /\ UNCHANGED <<status, link, up, committed, respStatus, outcome, rFailed>>
           ELSE /\ ProxyFail(r)
                /\ rFailed' = [rFailed EXCEPT ![r] = TRUE]
                /\ UNCHANGED <<down, frames>>
    /\ UNCHANGED <<queueVars, clientVars, cfgVars, taskVars, now, srvVars, poolVars, stackVars, gcVars, idleSince, cPool,
                   rdPc, regPc, intVars, timer, rCases, rConn, rFrame, rFrames, rWrong>>

\* ws.NextWriter(BinaryMessage), io.Copy of the request body, Close
WriteBody(r) ==
    /\ rPc[r] = "writeBody"
    /\ LET c == rConn[r]
       IN  IF link[c] = "up"
           THEN /\ down' = [down EXCEPT ![c] = Append(@, Msg("BINARY", "body"))]
                /\ frames' = [frames EXCEPT ![c] = Append(@, <<"down", "BINARY">>)]
                /\ rPc' = [rPc EXCEPT ![r] = "askHdr"]
                /\ UNCHANGED <<status, link, up, committed, respStatus, outcome, rFailed>>
           ELSE /\ ProxyFail(r)
                /\ rFailed' = [rFailed EXCEPT ![r] = TRUE]
                /\ UNCHANGED <<down, frames>>
    /\ UNCHANGED <<queueVars, clientVars, cfgVars, taskVars, now, srvVars, poolVars, stackVars, gcVars, idleSince, cPool,
                   rdPc, regPc, intVars, timer, rCases, rConn, rFrame, rFrames, rWrong>>

\* mutant of Handed : read goes on to ws.NextReader without waiting on c
HandedNoWait == "next"

\* read, "c <- reader" then "<-c" : having handed the reader over, read
\* waits for proxyRequest to close the channel
Handed == "wait"

\* "connection.nextResponse <- responseChannel" and the receive of the
\* reader : the send panics when Close has closed nextResponse (net/http
\* recovers the panic of a handler and drops the client's connection); else
\* it completes once read waits with a message, which it hands over.
Ask(r, next) ==
    LET c == rConn[r]
    IN  IF NextResponseClosed(c)
        THEN /\ rPc' = [rPc EXCEPT ![r] = "done"]
             /\ outcome' = [outcome EXCEPT ![r] = "panic"]
             /\ rFailed' = [rFailed EXCEPT ![r] = @ \/ ~committed[r]]
             /\ UNCHANGED <<rdPc, up, rFrame>>
        ELSE /\ rdPc[c] = "recv"
             /\ rdPc' = [rdPc EXCEPT ![c] = Handed]
             /\ rFrame' = [rFrame EXCEPT ![r] = Head(up[c])]
             /\ up' = [up EXCEPT ![c] = Tail(@)]
             /\ rPc' = [rPc EXCEPT ![r] = next]
             /\ UNCHANGED <<outcome, rFailed>>

\* the response header is asked for
AskHdr(r) ==
    /\ rPc[r] = "askHdr"
    /\ Ask(r, "readHdr")
    /\ UNCHANGED <<queueVars, clientVars, cfgVars, taskVars, now, srvVars, poolVars, stackVars, gcVars, status, idleSince,
                   cPool, regPc, link, down, frames, intVars, timer, rCases, rConn,
                   committed, respStatus, rFrames, rWrong>>

\* json.Unmarshal accepts the payload as a serialized HTTPResponse
IsResponse(m) == m.payload \in {"resp200", "resp527"}
StatusCode(m) == IF m.payload = "resp200" THEN 200 ELSE 527

\* ioutil.ReadAll, close(responseChannel), json.Unmarshal, w.WriteHeader
ReadHdr(r) ==
    /\ rPc[r] = "readHdr"
    /\ LET c == rConn[r]
       IN  /\ rdPc' = [rdPc EXCEPT ![c] = "next"]
           /\ rWrong' = [rWrong EXCEPT ![r] = @ \/ rFrame[r].t # "TEXT"]
           /\ rFrame' = [rFrame EXCEPT ![r] = NoMsg]
           /\ IF IsResponse(rFrame[r])
              THEN /\ committed' = [committed EXCEPT ![r] = TRUE]
                   /\ respStatus' = [respStatus EXCEPT ![r] = StatusCode(rFrame[r])]
                   /\ rPc' = [rPc EXCEPT ![r] = "askBody"]
                   /\ UNCHANGED <<status, link, up, outcome>>
              ELSE ProxyFail(r)
    /\ UNCHANGED <<queueVars, clientVars, cfgVars, taskVars, now, srvVars, poolVars, stackVars, gcVars, idleSince, cPool,
                   regPc, down, frames, intVars, timer, rCases, rConn, rFrames,
                   rFailed>>

\* the response body is asked for
AskBody(r) ==
    /\ rPc[r] = "askBody"
    /\ Ask(r, "readBody")
    /\ UNCHANGED <<queueVars, clientVars, cfgVars, taskVars, now, srvVars, poolVars, stackVars, gcVars, status, idleSince,
                   cPool, regPc, link, down, frames, intVars, timer, rCases, rConn,
                   committed, respStatus, rFrames, rWrong>>

\* mutant of ReleaseReturns : Release goes on whatever the status
ReleaseReturnsNever(st, c) == FALSE

\* Release : "if connection.status == CLOSED { return }"
ReleaseReturns(st, c) == st[c] = "CLOSED"

\* io.Copy(w, responseBodyReader), close(responseBodyChannel), Release :
\* unless CLOSED the tunnel is IDLE again and a goroutine offers it
ReadBody(r) ==
    /\ rPc[r] = "readBody"
    /\ LET c == rConn[r]
       IN  /\ rdPc' = [rdPc EXCEPT ![c] = "next"]
           /\ rWrong' = [rWrong EXCEPT ![r] = @ \/ rFrame[r].t # "BINARY"]
           /\ rFrame' = [rFrame EXCEPT ![r] = NoMsg]
           /\ rFrames' = [rFrames EXCEPT ![r] = frames[c]]
           /\ IF ReleaseReturns(status, c)
              THEN UNCHANGED <<status, idleSince, offers, frames>>
              ELSE /\ status' = [status EXCEPT ![c] = "IDLE"]
                   /\ idleSince' = [idleSince EXCEPT ![c] = now]
                   /\ offers' = [offers EXCEPT ![cPool[c]] = @ \cup {c}]
                   /\ frames' = [frames EXCEPT ![c] = <<>>]
    /\ rPc' = [rPc EXCEPT ![r] = "done"]
    /\ outcome' = [outcome EXCEPT ![r] = "proxied"]
    /\ UNCHANGED <<queueVars, clientVars, cfgVars, taskVars, now, srvVars, poolVars, sTop, sConns, sDone, sRun, sOrder,
                   gcVars, cPool, regPc, link, down, up, intVars, timer, rCases, rConn,
                   committed, respStatus, rFailed>>

(***************************************************************************)
(* The internal peer's end of a registered tunnel : client Connection.serve *)
(* seen from the public peer                                               *)
(***************************************************************************)
\* positions of serve on an open tunnel
ServePcs == {"read", "discard", "body", "sendHdr", "sendBody"}

\* json.Unmarshal accepts the payload as a serialized HTTPRequest
IsRequest(m) == m.payload = "req"

\* mutant of AfterDiscard : serve breaks after the error of a rejected request
AfterDiscardBreak(m) == [code |-> 527, break |-> TRUE]

\* serve, after discard() : a message that is not BINARY ends the loop after
\* the 527 error, else the 527 error is sent and the loop continues
AfterDiscard(m) == [code |-> 527, break |-> m.t # "BINARY"]

\* mutant of RejectPc : a rejected request is answered without discard()
RejectPcNoDiscard == "sendHdr"

\* serve : validator.Validate failed, the request body is discarded first
RejectPc == "discard"

\* ws.ReadMessage (the message type is ignored), json.Unmarshal, Validate :
\* a payload that is no request is answered 527 and serve breaks; a request
\* is accepted or rejected by the rules.  A read error ends serve.
IntRead(c, accept) ==
    /\ iPc[c] = "read"
    /\ IF down[c] # <<>>
       THEN /\ down' = [down EXCEPT ![c] = Tail(@)]
            /\ IF IsRequest(Head(down[c]))
               THEN /\ iPc' = [iPc EXCEPT ![c] = IF accept THEN "body" ELSE RejectPc]
                    /\ iCode' = [iCode EXCEPT ![c] = 527]
                    /\ iBreak' = [iBreak EXCEPT ![c] = FALSE]
               ELSE /\ accept
                    /\ iPc' = [iPc EXCEPT ![c] = "sendHdr"]
                    /\ iCode' = [iCode EXCEPT ![c] = 527]
                    /\ iBreak' = [iBreak EXCEPT ![c] = TRUE]
       ELSE /\ accept
            /\ link[c] = "down"
            /\ iPc' = [iPc EXCEPT ![c] = "exit"]
            /\ UNCHANGED <<down, iCode, iBreak>>
    /\ UNCHANGED <<queueVars, clientVars, cfgVars, taskVars, now, srvVars, poolVars, stackVars, gcVars, connVars, link, up,
                   frames, reqVars>>

\* discard() : ws.NextReader, the only place where the message type is checked
IntDiscard(c) ==
    /\ iPc[c] = "discard"
    /\ IF down[c] # <<>>
       THEN /\ down' = [down EXCEPT ![c] = Tail(@)]
            /\ iPc' = [iPc EXCEPT ![c] = "sendHdr"]
            /\ iCode' = [iCode EXCEPT ![c] = AfterDiscard(Head(down[c])).code]
            /\ iBreak' = [iBreak EXCEPT ![c] = AfterDiscard(Head(down[c])).break]
       ELSE /\ link[c] = "down"
            /\ iPc' = [iPc EXCEPT ![c] = "exit"]
            /\ UNCHANGED <<down, iCode, iBreak>>
    /\ UNCHANGED <<queueVars, clientVars, cfgVars, taskVars, now, srvVars, poolVars, stackVars, gcVars, connVars, link, up,
                   frames, reqVars>>

\* ws.NextReader for the request body (the message type is ignored), then
\* httpClient.Do : the response is the target's, or a 527 error
IntBody(c, ok) ==
    /\ iPc[c] = "body"
    /\ IF down[c] # <<>>
       THEN /\ down' = [down EXCEPT ![c] = Tail(@)]
            /\ iPc' = [iPc EXCEPT ![c] = "sendHdr"]
            /\ iCode' = [iCode EXCEPT ![c] = IF ok THEN 200 ELSE 527]
            /\ iBreak' = [iBreak EXCEPT ![c] = FALSE]
       ELSE /\ ok
            /\ link[c] = "down"
            /\ iPc' = [iPc EXCEPT ![c] = "exit"]
            /\ UNCHANGED <<down, iCode, iBreak>>
    /\ UNCHANGED <<queueVars, clientVars, cfgVars, taskVars, now, srvVars, poolVars, stackVars, gcVars, connVars, link, up,
                   frames, reqVars>>

\* the serialized response of the given status code
Response(code) == IF code = 200 THEN "resp200" ELSE "resp527"

\* a message of type t and the given payload is written to the websocket
\* by the internal peer; a write error ends serve
IntSend(c, t, payload, next) ==
    IF link[c] = "up"
    THEN /\ up' = [up EXCEPT ![c] = Append(@, Msg(t, payload))]
         /\ frames' = [frames EXCEPT ![c] = Append(@, <<"up", t>>)]
         /\ iPc' = [iPc EXCEPT ![c] = next]
    ELSE /\ iPc' = [iPc EXCEPT ![c] = "exit"]
         /\ UNCHANGED <<up, frames>>

\* ws.WriteMessage(TextMessage, jsonResponse), in serve and in error()
IntSendHdr(c) ==
    /\ iPc[c] = "sendHdr"
    /\ IntSend(c, "TEXT", Response(iCode[c]), "sendBody")
    /\ UNCHANGED <<queueVars, clientVars, cfgVars, taskVars, now, srvVars, poolVars, stackVars, gcVars, connVars, link, down,
                   iCode, iBreak, reqVars>>

\* the body of the response : the target's body, or for error(msg) the
\* bytes of msg (every msg passed to error is a non-empty text)
BodyPayload(code) == IF code = 527 THEN "error" ELSE "body"

\* ws.NextWriter(BinaryMessage) and the copy of the body in serve,
\* ws.WriteMessage(BinaryMessage, []byte(msg)) in error()
IntSendBody(c) ==
    /\ iPc[c] = "sendBody"
    /\ iCode' = [iCode EXCEPT ![c] = 527]
    /\ iBreak' = [iBreak EXCEPT ![c] = FALSE]
    /\ IntSend(c, "BINARY", BodyPayload(iCode[c]), IF iBreak[c] THEN "exit" ELSE "read")
    /\ UNCHANGED <<queueVars, clientVars, cfgVars, taskVars, now, srvVars, poolVars, stackVars, gcVars, connVars, link, down,
                   reqVars>>

\* serve has returned : Connection.close closes the websocket
IntExit(c) ==
    /\ iPc[c] = "exit"
    /\ iPc' = [iPc EXCEPT ![c] = "gone"]
    /\ link' = [link EXCEPT ![c] = "down"]
    /\ down' = [down EXCEPT ![c] = <<>>]
    /\ UNCHANGED <<queueVars, clientVars, cfgVars, taskVars, now, srvVars, poolVars, stackVars, gcVars, connVars, up, frames,
                   iCode, iBreak, reqVars>>

\* the transport fails or the keepalive goroutine closes the tunnel
\* (WriteControl error, then the deferred conn.close)
IntDrop(c) ==
    /\ iPc[c] \in ServePcs
    /\ link[c] = "up"
    /\ iPc' = [iPc EXCEPT ![c] = "gone"]
    /\ link' = [link EXCEPT ![c] = "down"]
    /\ down' = [down EXCEPT ![c] = <<>>]
    /\ UNCHANGED <<queueVars, clientVars, cfgVars, taskVars, now, srvVars, poolVars, stackVars, gcVars, connVars, up, frames,
                   iCode, iBreak, reqVars>>

\* a peer that does not follow the framing sends the response header as a
\* BINARY message
DeviantSendHdr(c) ==
    /\ iPc[c] = "sendHdr"
    /\ link[c] = "up"
    /\ IntSend(c, "BINARY", Response(iCode[c]), "sendBody")
    /\ UNCHANGED <<queueVars, clientVars, cfgVars, taskVars, now, srvVars, poolVars, stackVars, gcVars, connVars, link, down,
                   iCode, iBreak, reqVars>>

\* a peer that does not follow the framing sends the response body as a
\* TEXT message
DeviantSendBody(c) ==
    /\ iPc[c] = "sendBody"
    /\ link[c] = "up"
    /\ iCode' = [iCode EXCEPT ![c] = 527]
    /\ iBreak' = [iBreak EXCEPT ![c] = FALSE]
    /\ IntSend(c, "TEXT", "body", IF iBreak[c] THEN "exit" ELSE "read")
    /\ UNCHANGED <<queueVars, clientVars, cfgVars, taskVars, now, srvVars, poolVars, stackVars, gcVars, connVars, link, down,
                   reqVars>>

\* a peer that does not follow the protocol writes a response header
\* while serve waits for a request and none has been written to the tunnel
DeviantSendIdle(c) ==
    /\ iPc[c] = "read"
    /\ link[c] = "up"
    /\ frames[c] = <<>>
    /\ IntSend(c, "TEXT", Response(200), "read")
    /\ UNCHANGED <<queueVars, clientVars, cfgVars, taskVars, now, srvVars, poolVars, stackVars, gcVars, connVars, link, down,
                   iCode, iBreak, reqVars>>

ClientInit ==
    /\ PoolIdleSize \in 0..MaxPoolIdleSize
    /\ PoolMaxSize \in 0..MaxPoolMaxSize
    /\ id = 0
    /\ poolConnections = <<>>
    /\ poolDone = FALSE
    /\ poolStarted = FALSE
    /\ listenerC = 0
    /\ cStatus = [c \in Ids |-> "NEW"]
    /\ cDone = [c \in Ids |-> FALSE]
    /\ cWs = [c \in Ids |-> "nil"]
    /\ cPc = [c \in Ids |-> "none"]
    /\ unseen = 0
    /\ everUp = FALSE
    /\ replPc = "none"

ClientNext ==
    \/ PoolStart
    \/ ConnectorTick
    \/ ConnectorWake
    \/ ClientPoolClose
    \/ \E c \in Ids : ConnectOk(c)
    \/ \E c \in Ids : InitializeOk(c)
    \/ \E c \in Ids : DialFail(c)
    \/ \E c \in Ids : ServeSetIdle(c)
    \/ \E c \in Ids : ServeRead(c)
    \/ \E c \in Ids : ServeReadFail(c)
    \/ \E c \in Ids : ServeSetRunning(c)
    \/ \E c \in Ids : ServeExec(c)
    \/ \E c \in Ids : TaskExit(c)
    \/ \E c \in Ids : KeepaliveFail(c)

\* the public peer before anything has connected
ServerInit(timeouts, nc, nr) ==
    /\ Timeout \in timeouts
    /\ nConns = nc
    /\ nReqs = nr
    /\ now = 0
    /\ serverLock = 0
    /\ pools = {}
    /\ pClient = [p \in Pools |-> 0]
    /\ pSize = [p \in Pools |-> 0]
    /\ pDone = [p \in Pools |-> FALSE]
    /\ pConns = [p \in Pools |-> {}]
    /\ pLock = [p \in Pools |-> "free"]
    /\ sTop = [p \in Pools |-> 0]
    /\ sConns = [p \in Pools |-> <<>>]
    /\ sDone = [p \in Pools |-> FALSE]
    /\ sRun = [p \in Pools |-> FALSE]
    /\ offers = [p \in Pools |-> {}]
    /\ sOrder = [p \in Pools |-> <<>>]
    /\ gcPc = [p \in Pools |-> "none"]
    /\ gcTodo = [p \in Pools |-> {}]
    /\ gcIdle = [p \in Pools |-> 0]
    /\ gcHit = [p \in Pools |-> 0]
    /\ gcQuiet = [p \in Pools |-> FALSE]
    /\ gcIdle0 = [p \in Pools |-> 0]
    /\ status = [c \in Conns |-> "NONE"]
    /\ idleSince = [c \in Conns |-> 0]
    /\ cPool = [c \in Conns |-> 0]
    /\ rdPc = [c \in Conns |-> "none"]
    /\ regPc = [c \in Conns |-> "none"]
    /\ link = [c \in Conns |-> "up"]
    /\ down = [c \in Conns |-> <<>>]
    /\ up = [c \in Conns |-> <<>>]
    /\ frames = [c \in Conns |-> <<>>]
    /\ iPc = [c \in Conns |-> "none"]
    /\ iCode = [c \in Conns |-> 527]
    /\ iBreak = [c \in Conns |-> FALSE]
    /\ rPc = [r \in Reqs |-> "new"]
    /\ timer = [r \in Reqs |-> "nil"]
    /\ rCases = [r \in Reqs |-> {}]
    /\ rConn = [r \in Reqs |-> 0]
    /\ rFrame = [r \in Reqs |-> NoMsg]
    /\ committed = [r \in Reqs |-> FALSE]
    /\ respStatus = [r \in Reqs |-> 0]
    /\ outcome = [r \in Reqs |-> "none"]
    /\ rFrames = [r \in Reqs |-> <<>>]
    /\ rFailed = [r \in Reqs |-> FALSE]
    /\ rWrong = [r \in Reqs |-> FALSE]
    /\ serverDone = FALSE
    /\ statsPc = "select"
    /\ shPc = "none"
    /\ shTodo = {}
    /\ pCloses = [p \in Pools |-> 0]
    /\ sCloses = [p \in Pools |-> 0]
    /\ panicked = FALSE

\* the strings an X-SECRET-KEY header or Config.SecretKey may hold
Keys == {"", "k1", "k2"}

\* no secret, no rule, every request well-formed
PlainTraffic ==
    /\ SecretKey = ""
    /\ Blacklist = <<>>
    /\ Whitelist = <<>>
    /\ regKey = [c \in Conns |-> ""]
    /\ rDst = [r \in Reqs |-> "http://h/a"]
    /\ rMethod = [r \in Reqs |-> "GET"]
    /\ rHeader = [r \in Reqs |-> <<>>]

\* the internal pool with no connector started and no tunnel dialed
ClientIdle ==
    /\ ClientInit
    /\ PoolIdleSize = 0
    /\ PoolMaxSize = 0

\* registration of tunnels and the stacks
RegisterNext ==
    \/ \E c \in Conns, cid \in ClientIds : RegisterLock(c, cid, MaxPoolSize)
    \/ \E c \in Conns : PoolRegister(c)
    \/ \E p \in Pools, c \in Conns : StackIn(p, c)

\* the end of a tunnel and of a pool : the reader, the watchers, the close
\* of an empty pool
CloseNext ==
    \/ \E c \in Conns : ReaderNext(c)
    \/ \E c \in Conns : ConnWatcher(c)
    \/ \E p \in Pools : GCCloseEmpty(p)
    \/ \E p \in Pools : StackExit(p)
    \/ \E p \in Pools : PoolWatcher(p)

\* getConnection, but for the default case of its select
AcquireNext ==
    \/ \E r \in Reqs : Arrive(r)
    \/ \E r \in Reqs : TimerFire(r)
    \/ \E r \in Reqs : CountPools(r)
    \/ \E r \in Reqs : BuildCases(r)
    \/ \E r \in Reqs, p \in Pools : SelectRecv(r, p)
    \/ \E r \in Reqs : SelectTimeout(r)
    \/ \E r \in Reqs : TakeStep(r)

\* getConnection, the default case of its select (Config.Timeout <= 0)
DefaultNext == \E r \in Reqs : SelectDefault(r)

\* the exchange on a held tunnel, both ends
ExchangeNext ==
    \/ \E r \in Reqs : WriteHdr(r)
    \/ \E r \in Reqs : WriteBody(r)
    \/ \E r \in Reqs : AskHdr(r)
    \/ \E r \in Reqs : ReadHdr(r)
    \/ \E r \in Reqs : AskBody(r)
    \/ \E r \in Reqs : ReadBody(r)
    \/ \E c \in Conns, accept \in BOOLEAN : IntRead(c, accept)
    \/ \E c \in Conns : IntDiscard(c)
    \/ \E c \in Conns, ok \in BOOLEAN : IntBody(c, ok)
    \/ \E c \in Conns : IntSendHdr(c)
    \/ \E c \in Conns : IntSendBody(c)

\* transport failures
FailureNext == \E c \in Conns : IntDrop(c)

\* a peer that breaks the framing
DeviantNext ==
    \/ \E c \in Conns : DeviantSendHdr(c)
    \/ \E c \in Conns : DeviantSendBody(c)

Init == ClientIdle /\ ServerInit(0..MaxTimeout, MaxConns, MaxReqs) /\ NoQueue /\ PlainTraffic

Next ==
    RegisterNext \/ CloseNext \/ AcquireNext \/ DefaultNext \/ ExchangeNext \/ FailureNext

\* the server configured with a deadline
InitLive == ClientIdle /\ ServerInit(1..MaxTimeout, MaxConns, MaxReqs) /\ NoQueue /\ PlainTraffic

LiveNext == RegisterNext \/ CloseNext \/ AcquireNext \/ ExchangeNext \/ FailureNext

\* the public peer with its environment : tunnels register and fail,
\* requests arrive; no tunnel stays idle for IdleTimeout
Spec == Init /\ [][Next]_vars

\* the public peer under fair scheduling : a runnable goroutine of the public peer
\* eventually runs (the dispatcher of each request, a register handler
\* holding the locks, the stack coordinator) and an armed timer eventually
\* fires
LiveSpec ==
    /\ InitLive
    /\ [][LiveNext]_vars
    /\ \A r \in Reqs : WF_vars(TimerFire(r))
    /\ \A r \in Reqs : WF_vars(CountPools(r))
    /\ \A r \in Reqs : WF_vars(BuildCases(r))
    /\ \A r \in Reqs : WF_vars(SelectTimeout(r))
    /\ \A r \in Reqs : WF_vars(TakeStep(r))
    /\ \A c \in Conns : WF_vars(PoolRegister(c))
    /\ \A p \in Pools : WF_vars(\E c \in Conns : StackIn(p, c))

\* the public peer facing an internal peer that may break the framing
SpecDeviant == Init /\ [][Next \/ DeviantNext]_vars

\* a pool that receives no request : tunnels register and stay idle, the
\* clock advances and the GC goroutine runs its passes
GCNext ==
    \/ \E c \in Conns, cid \in ClientIds, size \in 0..MaxPoolSize : RegisterLock(c, cid, size)
    \/ \E c \in Conns : PoolRegister(c)
    \/ \E p \in Pools, c \in Conns : StackIn(p, c)
    \/ Tick
    \/ \E p \in Pools : GCCloseEmpty(p)
    \/ \E p \in Pools : GCStart(p)
    \/ \E p \in Pools, c \in Conns : GCVisit(p, c)
    \/ \E p \in Pools : GCClose(p)
    \/ \E p \in Pools : GCEnd(p)
    \/ \E p \in Pools : StackExit(p)
    \/ \E p \in Pools : PoolWatcher(p)
    \/ \E c \in Conns : ConnWatcher(c)
    \/ \E c \in Conns : ReaderNext(c)

InitGC == ClientIdle /\ ServerInit({0}, GCConns, 0) /\ NoQueue /\ PlainTraffic

SpecGC == InitGC /\ [][GCNext]_vars

\* tunnels register, are taken and released; no tunnel fails
StackNext ==
    \/ RegisterNext
    \/ \E r \in Reqs : Arrive(r)
    \/ \E r \in Reqs : CountPools(r)
    \/ \E r \in Reqs : BuildCases(r)
    \/ \E r \in Reqs, p \in Pools : SelectRecv(r, p)
    \/ \E r \in Reqs : SelectDefault(r)
    \/ \E r \in Reqs : TakeStep(r)
    \/ ExchangeNext
    \/ \E c \in Conns : ReaderNext(c)

InitStack == ClientIdle /\ ServerInit({0}, StackConns, StackReqs) /\ NoQueue /\ PlainTraffic

SpecStack == InitStack /\ [][StackNext]_vars

\* the front of the /request handler : one rule may forbid a destination,
\* requests arrive with any destination header
InitFront ==
    /\ ClientIdle
    /\ ServerInit({0}, FrontConns, FrontReqs) /\ NoQueue
    /\ SecretKey = ""
    /\ regKey = [c \in Conns |-> ""]
    /\ Blacklist \in {<<>>, <<[Method |-> "", URL |-> "/b$", Headers |-> <<>>]>>}
    /\ Whitelist = <<>>
    /\ rDst \in [Reqs -> Dsts]
    /\ \A r \in Reqs : r > FrontReqs => rDst[r] = ""
    /\ rMethod = [r \in Reqs |-> "GET"]
    /\ rHeader = [r \in Reqs |-> <<>>]

FrontNext ==
    \/ RegisterNext
    \/ CloseNext
    \/ \E r \in Reqs : RequestReject(r)
    \/ \E r \in Reqs : Arrive(r)
    \/ \E r \in Reqs : CountPools(r)
    \/ \E r \in Reqs : BuildCases(r)
    \/ \E r \in Reqs, p \in Pools : SelectRecv(r, p)
    \/ \E r \in Reqs : TakeStep(r)
    \/ DefaultNext
    \/ ExchangeNext
    \/ FailureNext

SpecFront == InitFront /\ [][FrontNext]_vars

\* the rules of the validator scenario
HeaderRules == {<<>>} \cup [HeaderNames -> {"^tok$", "^$"}]
Rules == [Method : {"", "^GET$"}, URL : {"", "/b$"}, Headers : HeaderRules]
RuleLists == UNION {[1..n -> Rules] : n \in 0..MaxRules}

\* the validator alone : any two lists of rules, one request of any shape
InitValidator ==
    /\ ClientIdle
    /\ ServerInit({0}, 0, 1) /\ NoQueue
    /\ SecretKey = ""
    /\ regKey = [c \in Conns |-> ""]
    /\ Blacklist \in RuleLists
    /\ Whitelist \in RuleLists
    /\ rDst \in [Reqs -> {"HTTP://h/a", "http://h/b"}]
    /\ rMethod \in [Reqs -> Methods]
    /\ rHeader \in [Reqs -> {<<>>} \cup [HeaderNames -> HeaderValues]]
    /\ \A r \in Reqs : r > 1 => rDst[r] = "http://h/b" /\ rMethod[r] = "GET" /\ rHeader[r] = <<>>

ValidatorNext ==
    \/ \E r \in Reqs : RequestReject(r)
    \/ \E r \in Reqs : Arrive(r)

SpecValidator == InitValidator /\ [][ValidatorNext]_vars

\* /register with secrets : the server is configured with any key, each
\* tunnel sends any key
InitRegister ==
    /\ ClientIdle
    /\ ServerInit({0}, RegisterConns, 0) /\ NoQueue
    /\ SecretKey \in Keys
    /\ regKey \in [Conns -> Keys]
    /\ \A c \in Conns : c > RegisterConns => regKey[c] = ""
    /\ Blacklist = <<>>
    /\ Whitelist = <<>>
    /\ rDst = [r \in Reqs |-> "http://h/a"]
    /\ rMethod = [r \in Reqs |-> "GET"]
    /\ rHeader = [r \in Reqs |-> <<>>]

RegisterSecretNext ==
    \/ \E c \in Conns : RegisterRefuse(c)
    \/ RegisterNext
    \/ CloseNext
    \/ FailureNext

SpecRegister == InitRegister /\ [][RegisterSecretNext]_vars

\* the internal pool with its environment : requests arrive, tunnels fail
InitClient == ClientInit /\ ServerInit({0}, 0, 0) /\ NoQueue /\ PlainTraffic

SpecClient == InitClient /\ [][ClientNext]_vars

\* the quiescent internal pool : dials succeed, no request arrives, no tunnel fails
QuietNext ==
    \/ PoolStart
    \/ ConnectorTick
    \/ ConnectorWake
    \/ \E c \in Ids : ConnectOk(c)
    \/ \E c \in Ids : InitializeOk(c)
    \/ \E c \in Ids : ServeSetIdle(c)

LiveSpecClient ==
    /\ InitClient
    /\ [][QuietNext]_vars
    /\ WF_vars(PoolStart)
    /\ WF_vars(ConnectorWake)
    /\ WF_vars(ConnectorTick)
    /\ \A c \in Ids : WF_vars(ConnectOk(c) \/ InitializeOk(c) \/ ServeSetIdle(c))

\* connections that have failed or been closed
Failed == {c \in Ids : cDone[c] \/ cPc[c] \in {"exit", "gone"}}

\* the environment may still break a connection : the connector will find
\* an unused identifier for each connection it has to open
Budget == Cardinality(Failed) + PoolMaxSize < MaxId

\* the failures the environment may still cause
ChurnDialFail(c) == Budget /\ DialFail(c)
ChurnReadFail(c) == (Budget \/ cWs[c] = "closed") /\ ServeReadFail(c)
ChurnExec(c) == ServeExec(c) /\ (Budget \/ cWs[c] = "closed" \/ cPc'[c] = "setIdle")
ChurnKeepaliveFail(c) == Budget /\ KeepaliveFail(c)

\* the internal pool with a bounded number of failures : dials and reads
\* fail, keepalive PINGs fail, requests arrive and are executed
ChurnNext ==
    \/ PoolStart
    \/ ConnectorTick
    \/ ConnectorWake
    \/ \E c \in Ids : ConnectOk(c)
    \/ \E c \in Ids : InitializeOk(c)
    \/ \E c \in Ids : ChurnDialFail(c)
    \/ \E c \in Ids : ServeSetIdle(c)
    \/ \E c \in Ids : ServeRead(c)
    \/ \E c \in Ids : ChurnReadFail(c)
    \/ \E c \in Ids : ServeSetRunning(c)
    \/ \E c \in Ids : ChurnExec(c)
    \/ \E c \in Ids : TaskExit(c)
    \/ \E c \in Ids : ChurnKeepaliveFail(c)

\* the same under fair scheduling : the ticker keeps firing, a pending
\* signal is received, a dial, a write or an execution returns, a read on
\* a closed websocket returns, a runnable task runs
LiveSpecChurn ==
    /\ InitClient
    /\ [][ChurnNext]_vars
    /\ WF_vars(PoolStart)
    /\ WF_vars(ConnectorTick)
    /\ WF_vars(ConnectorWake)
    /\ \A c \in Ids : WF_vars(ConnectOk(c) \/ InitializeOk(c) \/ ServeSetIdle(c)
                                \/ ServeSetRunning(c) \/ ChurnExec(c) \/ TaskExit(c))
    /\ \A c \in Ids : WF_vars(cWs[c] = "closed" /\ ServeReadFail(c))

\* both peers are stopped : the internal pool dials and is closed, tunnels
\* register on the public peer, its GC runs, Shutdown closes the pools
DownNext ==
    \/ PoolStart
    \/ ConnectorTick
    \/ ConnectorWake
    \/ \E c \in Ids : ConnectOk(c)
    \/ \E c \in Ids : InitializeOk(c)
    \/ \E c \in Ids : ServeSetIdle(c)
    \/ ClientPoolClose
    \/ ReplDone
    \/ ReplBreak
    \/ RegisterNext
    \/ \E p \in Pools : GCStart(p)
    \/ \E p \in Pools, c \in Conns : GCVisit(p, c)
    \/ \E p \in Pools : GCEnd(p)
    \/ \E p \in Pools : GCExit(p)
    \/ ShutdownLock
    \/ \E p \in Pools : ShutdownPool(p)
    \/ ShutdownEnd
    \/ StatsDone
    \/ StatsBreak
    \/ \E c \in Conns : ReaderNext(c)
    \/ \E c \in Conns : ConnWatcher(c)
    \/ \E p \in Pools : StackExit(p)
    \/ \E p \in Pools : PoolWatcher(p)

InitDown ==
    /\ ClientInit
    /\ PoolIdleSize = 1
    /\ PoolMaxSize = 1
    /\ ServerInit({0}, DownConns, 0) /\ NoQueue
    /\ PlainTraffic

\* the same under fair scheduling : a select whose done case is ready
\* eventually takes it, a runnable goroutine eventually runs
LiveSpecDown ==
    /\ InitDown
    /\ [][DownNext]_vars
    /\ WF_vars(ReplDone)
    /\ WF_vars(ReplBreak)
    /\ WF_vars(StatsDone)
    /\ WF_vars(StatsBreak)
    /\ \A p \in Pools : WF_vars(GCExit(p))
    /\ \A p \in Pools : WF_vars((\E c \in Conns : GCVisit(p, c)) \/ GCEnd(p))
    /\ \A p \in Pools : WF_vars(ShutdownPool(p))
    /\ WF_vars(ShutdownEnd)

\* the public peer while the clock advances and Shutdown may be called :
\* tunnels register, carry exchanges, fail and are closed
ReleaseNext ==
    \/ Next
    \/ Tick
    \/ ShutdownLock
    \/ \E p \in Pools : ShutdownPool(p)
    \/ ShutdownEnd

InitRelease == ClientIdle /\ ServerInit(0..MaxTimeout, ReleaseConns, ReleaseReqs) /\ NoQueue /\ PlainTraffic

SpecRelease == InitRelease /\ [][ReleaseNext]_vars

\* pools empty out : tunnels register, stay idle, fail or are closed by
\* the GC, the clock advances
EmptyNext == GCNext \/ FailureNext

InitEmpty == ClientIdle /\ ServerInit({0}, EmptyConns, 0) /\ NoQueue /\ PlainTraffic

\* the same under fair scheduling : a goroutine waiting for a lock
\* gets it even when the lock is taken and released again and again in
\* the meantime (sync.Mutex hands a lock to a goroutine that has waited
\* for long, hence the strong fairness of the watcher of a pool and of a
\* register handler), the stack coordinator eventually receives an
\* offer, a pass of clean that has begun goes on to its end and unlocks
\* the pool
LiveSpecEmpty ==
    /\ InitEmpty
    /\ [][EmptyNext]_vars
    /\ \A p \in Pools : WF_vars((\E c \in Conns : GCVisit(p, c)) \/ GCClose(p) \/ GCEnd(p))
    /\ \A p \in Pools : SF_vars(PoolWatcher(p))
    /\ \A c \in Conns : SF_vars(PoolRegister(c))
    /\ \A p \in Pools : WF_vars(\E c \in Conns : StackIn(p, c))

\* the public peer facing an internal peer that may write to an idle tunnel
UnsolicitedNext == Next \/ \E c \in Conns : DeviantSendIdle(c)

InitUnsolicited ==
    ClientIdle /\ ServerInit(0..MaxTimeout, UnsolicitedConns, UnsolicitedReqs) /\ NoQueue /\ PlainTraffic

SpecUnsolicited == InitUnsolicited /\ [][UnsolicitedNext]_vars

\* the internal pool started and closed before it opened a connection
ClientClosed ==
    /\ PoolIdleSize = 0
    /\ PoolMaxSize = 0
    /\ id = 0
    /\ poolConnections = <<>>
    /\ poolDone = TRUE
    /\ poolStarted = TRUE
    /\ listenerC = 0
    /\ cStatus = [c \in Ids |-> "NEW"]
    /\ cDone = [c \in Ids |-> FALSE]
    /\ cWs = [c \in Ids |-> "nil"]
    /\ cPc = [c \in Ids |-> "none"]
    /\ unseen = 0
    /\ everUp = FALSE
    /\ replPc = "select"

\* two scenarios, one at a time : the internal peer alone; the public
\* peer with the tunnels of two internal peers and a request
InitIsolation ==
    \/ /\ ClientInit
       /\ PoolIdleSize = IsolationIdleSize
       /\ PoolMaxSize = IsolationIdleSize
       /\ ServerInit({0}, 0, 0) /\ NoQueue
       /\ PlainTraffic
    \/ /\ ClientClosed
       /\ ServerInit({0}, IsolationConns, IsolationReqs) /\ NoQueue
       /\ PlainTraffic

\* Shutdown is called on a public peer that has tunnels
IsolationShutdown == nConns > 0 /\ ShutdownLock

IsolationNext ==
    \/ ClientNext
    \/ \E c \in Conns, cid \in 1..IsolationClients : RegisterLock(c, cid, MaxPoolSize)
    \/ \E c \in Conns : PoolRegister(c)
    \/ \E p \in Pools, c \in Conns : StackIn(p, c)
    \/ CloseNext
    \/ FailureNext
    \/ \E r \in Reqs : Arrive(r)
    \/ \E r \in Reqs : CountPools(r)
    \/ \E r \in Reqs : BuildCases(r)
    \/ \E r \in Reqs, p \in Pools : SelectRecv(r, p)
    \/ \E r \in Reqs : SelectDefault(r)
    \/ \E r \in Reqs : TakeStep(r)
    \/ ExchangeNext
    \/ IsolationShutdown
    \/ \E p \in Pools : ShutdownPool(p)
    \/ ShutdownEnd

SpecIsolation == InitIsolation /\ [][IsolationNext]_vars

\* the public peer is stopped while it works : tunnels of several internal
\* peers register, a request is dispatched and proxied, tunnels fail, the
\* GC goroutines and the watchers run, Shutdown is called, and called again
ShutdownNext ==
    \/ \E c \in Conns, cid \in 1..ShutdownClients : RegisterLock(c, cid, MaxPoolSize)
    \/ \E c \in Conns : PoolRegister(c)
    \/ \E p \in Pools, c \in Conns : StackIn(p, c)
    \/ CloseNext
    \/ FailureNext
    \/ \E r \in Reqs : Arrive(r)
    \/ \E r \in Reqs : CountPools(r)
    \/ \E r \in Reqs : BuildCases(r)
    \/ \E r \in Reqs, p \in Pools : SelectRecv(r, p)
    \/ \E r \in Reqs : SelectDefault(r)
    \/ \E r \in Reqs : TakeStep(r)
    \/ ExchangeNext
    \/ \E p \in Pools : GCStart(p)
    \/ \E p \in Pools, c \in Conns : GCVisit(p, c)
    \/ \E p \in Pools : GCEnd(p)
    \/ \E p \in Pools : GCExit(p)
    \/ \E p \in Pools : GCCloseAgain(p)
    \/ ShutdownLock
    \/ \E p \in Pools : ShutdownPool(p)
    \/ ShutdownEnd
    \/ ShutdownAgain
    \/ ShutdownAgainEnd

\* either several tunnels and no request, or one tunnel and a request
InitShutdown ==
    /\ ClientIdle
    /\ \/ ServerInit({0}, ShutdownConns, 0) /\ NoQueue
       \/ ServerInit({0}, 1, ShutdownReqs) /\ NoQueue
    /\ PlainTraffic

\* the same under fair scheduling : Shutdown, once called, runs on : it
\* gets the lock of a pool although the GC goroutine takes and releases it
\* in the meantime (strong fairness), a pass of clean that has begun goes
\* on to its end, the stack coordinator and the watchers run
LiveSpecShutdown ==
    /\ InitShutdown
    /\ [][ShutdownNext]_vars
    /\ \A p \in Pools : SF_vars(ShutdownPool(p))
    /\ WF_vars(ShutdownEnd)
    /\ WF_vars(ShutdownAgainEnd)
    /\ \A p \in Pools : WF_vars((\E c \in Conns : GCVisit(p, c)) \/ GCEnd(p))
    /\ \A p \in Pools : WF_vars(\E c \in Conns : StackIn(p, c))

\* the GC runs beside the dispatcher : tunnels register and age, the GC
\* goroutine runs its passes, a request is dispatched and proxied
ReapNext ==
    \/ GCNext
    \/ \E r \in Reqs : Arrive(r)
    \/ \E r \in Reqs : CountPools(r)
    \/ \E r \in Reqs : BuildCases(r)
    \/ \E r \in Reqs, p \in Pools : SelectRecv(r, p)
    \/ \E r \in Reqs : SelectDefault(r)
    \/ \E r \in Reqs : TakeStep(r)
    \/ ExchangeNext

InitReap == ClientIdle /\ ServerInit({0}, ReapConns, ReapReqs) /\ NoQueue /\ PlainTraffic

SpecReap == InitReap /\ [][ReapNext]_vars

\* tunnels are offered to the stack by register and by each release, while
\* tunnels fail and the pool is closed; fair scheduling : the dispatcher of
\* a request runs, a register handler gets the lock of its pool, the stack
\* coordinator, as long as it runs, receives an offer
InitOffer == ClientIdle /\ ServerInit({0}, OfferConns, OfferReqs) /\ NoQueue /\ PlainTraffic

OfferNext ==
    \/ RegisterNext
    \/ CloseNext
    \/ \E r \in Reqs : Arrive(r)
    \/ \E r \in Reqs : CountPools(r)
    \/ \E r \in Reqs : BuildCases(r)
    \/ \E r \in Reqs, p \in Pools : SelectRecv(r, p)
    \/ \E r \in Reqs : TakeStep(r)
    \/ DefaultNext
    \/ ExchangeNext
    \/ FailureNext

LiveSpecOffer ==
    /\ InitOffer
    /\ [][OfferNext]_vars
    /\ \A r \in Reqs : WF_vars(CountPools(r))
    /\ \A r \in Reqs : WF_vars(BuildCases(r))
    /\ \A r \in Reqs : WF_vars(SelectDefault(r))
    /\ \A r \in Reqs : WF_vars(TakeStep(r))
    /\ \A c \in Conns : WF_vars(PoolRegister(c))
    /\ \A p \in Pools : WF_vars(\E c \in Conns : StackIn(p, c))

(***************************************************************************)
(* Claims on the internal pool                                             *)
(***************************************************************************)
NonClosedMembers == {i \in 1..Len(poolConnections) : cStatus[poolConnections[i]] # "CLOSED"}

IdleMembers == {i \in 1..Len(poolConnections) : cStatus[poolConnections[i]] = "IDLE"}

\* C1 : in every reachable state of the internal pool the number of member
\* tunnels whose status is not CLOSED is at most PoolMaxSize.
C1_Capacity == Cardinality(NonClosedMembers) <= PoolMaxSize

\* witness of C1 : the pool is saturated after a member was closed and replaced
C1_Witness ==
    /\ PoolMaxSize = 2
    /\ Cardinality(NonClosedMembers) = 2
    /\ id > 2
    /\ \E i \in NonClosedMembers : cStatus[poolConnections[i]] = "RUNNING"

\* C3 : a quiescent open pool whose dials succeed eventually reaches, and keeps,
\* at least min(PoolIdleSize, PoolMaxSize) IDLE tunnels.
C3_IdleTarget == <>[](Cardinality(IdleMembers) >= Min(PoolIdleSize, PoolMaxSize))

\* witness of C3 : the idle target of a pool with PoolIdleSize = PoolMaxSize = 2 is met
C3_Witness ==
    /\ PoolMaxSize = 2
    /\ PoolIdleSize = 2
    /\ Cardinality(IdleMembers) = 2

(***************************************************************************)
(* Claims on the public peer                                               *)
(***************************************************************************)
\* the stored tunnels of a stack, the top last
StackSeq(p) == IF sTop[p] = 0 THEN <<>> ELSE Append(sConns[p], sTop[p])

IsPrefix(s, t) == Len(s) <= Len(t) /\ SubSeq(t, 1, Len(s)) = s

\* requests whose take() on tunnel c returns true in this step
TakersOf(c) == {r \in Reqs : rPc[r] = "take" /\ rConn[r] = c /\ rPc'[r] = "writeHdr"}

\* a take() step : on an IDLE tunnel it returns true and the tunnel is BUSY,
\* on a BUSY or CLOSED tunnel it returns false and the status is unchanged
TakeContract ==
    \A r \in Reqs :
        rPc[r] = "take" /\ rPc'[r] # "take" =>
            IF status[rConn[r]] = "IDLE"
            THEN status'[rConn[r]] = "BUSY" /\ rPc'[r] = "writeHdr" /\ rConn'[r] = rConn[r]
            ELSE status'[rConn[r]] = status[rConn[r]] /\ rPc'[r] = "count"

\* every IDLE -> BUSY edge is the successful take() of exactly one request,
\* and a request enters proxyRequest only through such a take()
TakeEdges ==
    /\ \A c \in Conns :
           status[c] = "IDLE" /\ status'[c] = "BUSY" => Cardinality(TakersOf(c)) = 1
    /\ \A r \in Reqs :
           rPc[r] # "writeHdr" /\ rPc'[r] = "writeHdr" => r \in TakersOf(rConn'[r])

\* C2 : a tunnel is never held by two requests at once; each IDLE -> BUSY
\* transition is the true return of exactly one take(); take() on a BUSY or
\* CLOSED tunnel returns false and leaves the status unchanged; getConnection
\* returns a tunnel only if its own take() on it succeeded.
C2_Atomicity ==
    /\ [](\A c \in Conns : Cardinality(Holders(c)) <= 1)
    /\ [][TakeContract /\ TakeEdges]_vars

\* witness of C2 : one request holds a tunnel while the take() of a
\* concurrent request is about to fail on a CLOSED tunnel it received
C2_Witness ==
    \E r1, r2 \in Reqs :
        /\ r1 # r2
        /\ rPc[r1] \in ProxyPcs
        /\ status[rConn[r1]] = "BUSY"
        /\ rPc[r2] = "take"
        /\ status[rConn[r2]] = "CLOSED"

\* C4 : a GC pass that begins when every IDLE tunnel of the pool is older
\* than IdleTimeout, in a pool without requests, ends with min(PoolSize,
\* IDLE tunnels at its start) IDLE tunnels, hence at most PoolSize; with
\* PoolSize = 1 and 5 idle tunnels exactly 1 stays IDLE.
C4_IdleCap ==
    [][\A p \in Pools :
           gcPc[p] = "run" /\ gcPc'[p] = "idle" /\ gcQuiet[p] =>
               Cardinality(IdleOf(p))' = Min(gcIdle0[p], pSize[p])]_vars

\* witness of C4 : PoolSize = 1, the pass began with 5 old idle tunnels and
\* has ended with exactly one IDLE tunnel
C4_Witness ==
    \E p \in Pools :
        /\ pSize[p] = 1
        /\ gcQuiet[p]
        /\ gcIdle0[p] = 5
        /\ gcPc[p] = "idle"
        /\ Cardinality(IdleOf(p)) = 1

\* a receive on stack.out returns the tunnel the stack accepted last among
\* those it stores
ReceivesLast ==
    \A r \in Reqs :
        rPc[r] = "select" /\ rPc'[r] = "take" =>
            LET o == sOrder[cPool[rConn'[r]]]
            IN  o # <<>> /\ rConn'[r] = o[Len(o)]

\* C5 : the stack is LIFO : it stores the tunnels in the order it accepted
\* them and each receive returns the most recently accepted stored tunnel, so
\* that t1..tN offered in this order are received as tN, ..., t1.
C5_Lifo ==
    /\ [](\A p \in Pools : StackSeq(p) = sOrder[p])
    /\ [][ReceivesLast]_vars

\* witness of C5 : of the three tunnels stored in the order 1, 2, 3 the
\* first request received tunnel 3 and the second tunnel 2; tunnel 1 stays
C5_Witness ==
    /\ sOrder[1] = <<1>>
    /\ rConn[1] = 3 /\ rPc[1] = "writeHdr"
    /\ rConn[2] = 2 /\ rPc[2] = "take"
    /\ \A r \in Reqs : outcome[r] = "none"

\* C6 : the frames of a completed exchange are exactly TEXT and BINARY from
\* the public peer, then TEXT and BINARY from the internal peer; the frames
\* on a tunnel since its last release are always a prefix of these four, and
\* none is sent on a released tunnel before it is taken again.
C6_FourFrames ==
    /\ \A r \in Reqs : outcome[r] = "proxied" => rFrames[r] = FourFrames
    /\ \A c \in Conns : IsPrefix(frames[c], FourFrames)
    /\ \A c \in Conns : status[c] = "IDLE" => frames[c] = <<>>

\* witness of C6 : two requests completed their exchange on the same tunnel,
\* one after the other
C6_Witness ==
    \E r1, r2 \in Reqs :
        /\ r1 # r2
        /\ outcome[r1] = "proxied" /\ outcome[r2] = "proxied"
        /\ rConn[r1] = rConn[r2]
        /\ respStatus[r1] = 200 /\ respStatus[r2] = 527

\* C7 : when proxyRequest reads a frame of the wrong type, the tunnel is
\* closed and the request is answered 526.
C7_DeviationCloses ==
    \A r \in Reqs :
        rPc[r] = "done" /\ rWrong[r] =>
            status[rConn[r]] = "CLOSED" /\ respStatus[r] = 526

\* C8 : when the tunnel fails under a request before the response headers
\* are committed, the handler returns an error, the client receives 526 and
\* the tunnel is CLOSED.
C8_FailureIs526 ==
    \A r \in Reqs :
        rPc[r] = "done" /\ rFailed[r] =>
            outcome[r] = "error" /\ respStatus[r] = 526 /\ status[rConn[r]] = "CLOSED"

\* a return of getConnection : nil after the deadline has fired, or the
\* tunnel on which its own take() has just succeeded
AcquireReturn ==
    \A r \in Reqs :
        rPc[r] \in AcquirePcs /\ rPc'[r] \notin AcquirePcs =>
            \/ /\ timer[r] = "fired"
               /\ outcome'[r] = "notunnel"
               /\ respStatus'[r] = 526
            \/ /\ rPc[r] = "take"
               /\ status[rConn[r]] = "IDLE"
               /\ status'[rConn[r]] = "BUSY"
               /\ rPc'[r] = "writeHdr"

\* C9 : with Config.Timeout > 0 every getConnection call terminates; it
\* returns "no tunnel", answered 526, only once the deadline has fired, be
\* there a pool or none, and otherwise the tunnel it took.
C9_Deadline ==
    /\ \A r \in Reqs :
           (Timeout > 0 /\ rPc[r] \in AcquirePcs) ~> (rPc[r] \notin AcquirePcs)
    /\ [][Timeout > 0 => AcquireReturn]_vars

\* witness of C9 : with a deadline and no pool ever registered a request
\* was answered 526 after its timer fired
C9_Witness ==
    /\ Timeout > 0
    /\ \A c \in Conns : regPc[c] = "none"
    /\ \E r \in Reqs :
           /\ outcome[r] = "notunnel"
           /\ timer[r] = "consumed"
           /\ respStatus[r] = 526

\* C10 : with Config.Timeout <= 0 getConnection never returns "no tunnel".
C10_Unbounded == Timeout <= 0 => \A r \in Reqs : outcome[r] # "notunnel"

(***************************************************************************)
(* Claims on the handler fronts : /request checks, validator, /register    *)
(***************************************************************************)
\* a rule matches a request : each regex present in the rule matches
Matches(rule, req) ==
    /\ rule.Method = "" \/ MatchString(rule.Method, req.Method)
    /\ rule.URL = "" \/ MatchString(rule.URL, req.URL)
    /\ \A h \in DOMAIN rule.Headers :
          MatchString(rule.Headers[h], IF h \in DOMAIN req.Header THEN req.Header[h] ELSE "")

\* some rule of the list matches the request
Hit(rules, req) == \E i \in 1..Len(rules) : Matches(rules[i], req)

\* the validator's decision as the claim states it
Rejects(req) == Hit(Blacklist, req) \/ (Whitelist # <<>> /\ ~Hit(Whitelist, req))

\* the request is to be rejected before the dispatcher
LocallyRejected(r) == rDst[r] = "" \/ UrlParse(rDst[r]).err \/ Rejects(Rewritten(r))

\* the handler of a locally rejected request ends in one step with 526,
\* having armed no timer, received no tunnel, and changed no tunnel, wire or stack
RejectStep ==
    \A r \in Reqs :
        (rPc[r] = "new" /\ rPc'[r] # "new" /\ LocallyRejected(r)) =>
            /\ rPc'[r] = "done"
            /\ committed'[r] /\ respStatus'[r] = 526
            /\ timer'[r] = "nil" /\ rCases'[r] = {} /\ rConn'[r] = 0
            /\ UNCHANGED <<status, down, up, frames, stackVars>>

\* C11 : a /request whose X-PROXY-DESTINATION header is missing or
\* unparsable, or that the validator rejects, is answered 526 without the
\* dispatcher : it never holds a tunnel, and its rejection changes no
\* tunnel's status and sends no frame.
C11_LocalRejection ==
    /\ [](\A r \in Reqs : (rPc[r] # "new" /\ LocallyRejected(r)) =>
              (rPc[r] = "done" /\ respStatus[r] = 526 /\ rConn[r] = 0 /\ rFrames[r] = <<>>))
    /\ [][RejectStep]_vars

\* a request is rejected by the validator while another holds a tunnel in
\* the middle of its exchange, and one is rejected for an unparsable header
C11_Witness ==
    \E r, q \in Reqs :
        /\ outcome[r] \in {"forbidden", "unparsable", "missing"}
        /\ rPc[q] \in ProxyPcs /\ rConn[q] # 0
        /\ status[rConn[q]] = "BUSY" /\ frames[rConn[q]] # <<>>

\* C12 : Validate rejects iff some blacklist rule matches, or the whitelist
\* is non-empty and none of its rules matches; a rule matches iff each
\* regex it holds (method, URL, each named header, "" for an absent
\* header) matches.
C12_ValidatorDecision ==
    \A r \in Reqs :
        (r <= nReqs /\ rPc[r] # "new" /\ ~UrlParse(rDst[r]).err /\ rDst[r] # "") =>
            /\ (outcome[r] \in {"forbidden", "notallowed"}) <=> Rejects(Rewritten(r))
            /\ (rPc[r] = "count") <=> ~Rejects(Rewritten(r))
            /\ \A i \in 1..Len(Blacklist) :
                  RuleMatch(Blacklist[i], Rewritten(r)) <=> Matches(Blacklist[i], Rewritten(r))
            /\ \A i \in 1..Len(Whitelist) :
                  RuleMatch(Whitelist[i], Rewritten(r)) <=> Matches(Whitelist[i], Rewritten(r))

\* a request is rejected by the second blacklist rule, through a header
\* regex matched against the empty string of an absent header, although a
\* whitelist rule matches it too
C12_Witness ==
    \E r \in Reqs :
        /\ outcome[r] = "forbidden"
        /\ Len(Blacklist) = 2
        /\ ~Matches(Blacklist[1], Rewritten(r))
        /\ "X-Auth" \in DOMAIN Blacklist[2].Headers
        /\ rHeader[r] = <<>>
        /\ Hit(Whitelist, Rewritten(r))

\* C13 : /register is refused (no pool, no tunnel) when X-SECRET-KEY differs
\* from a non-empty Config.SecretKey; with an empty Config.SecretKey no
\* registration is refused, whatever X-SECRET-KEY holds.
C13_Secret ==
    \A c \in Conns :
        /\ (SecretKey # "" /\ regKey[c] # SecretKey) =>
              (regPc[c] \in {"none", "refused"} /\ cPool[c] = 0 /\ status[c] = "NONE")
        /\ SecretKey = "" => regPc[c] # "refused"

(***************************************************************************)
(* Claims on the internal peer's serve loop                                *)
(***************************************************************************)
\* the internal peer is answering a request it could not execute
Failing(c) == iPc[c] \in {"sendHdr", "sendBody"} /\ iCode[c] = 527

\* a step of the failing answer, the websocket staying up : the header is a
\* TEXT message of status 527, the body a BINARY message holding the error
\* text, and serve is then back at the top of its loop
FailureAnswer ==
    \A c \in Conns :
        (Failing(c) /\ iPc'[c] # iPc[c] /\ link'[c] = "up") =>
            IF iPc[c] = "sendHdr"
            THEN /\ up'[c] = Append(up[c], Msg("TEXT", "resp527"))
                 /\ iPc'[c] = "sendBody" /\ iCode'[c] = 527
            ELSE /\ up'[c] = Append(up[c], Msg("BINARY", "error"))
                 /\ iPc'[c] = "read"

C15_ClosedTerminal ==
    [][\A c \in Ids : (cStatus[c] = "CLOSED" /\ cDone[c]) => cStatus'[c] = "CLOSED"]_vars

\* C16 : every connection that has been closed is eventually observed
\* CLOSED by a pass of the connector and removed from pool.connections.
C16_Reconciled ==
    \A c \in Ids : (cDone[c] /\ c \in Range(poolConnections)) ~> (c \notin Range(poolConnections))

\* C17 : every change of a connection's status, the changes to CLOSED
\* included, calls onConnectionStatusChanged, which leaves a signal pending.
C17_EveryChangeSignals ==
    [][\A c \in Ids : (cStatus[c] # "NEW" /\ cStatus'[c] # cStatus[c]) =>
                          (unseen' > 0 /\ listenerC' = 1)]_vars

PassCreates ==
    Max(ToCreate(PoolSizeOf(FilterNotClosed(poolConnections, cStatus), cStatus),
                 PoolIdleSize, PoolMaxSize), 0)

\* a step of the connector on an open pool
PassStep ==
    /\ ~poolDone
    /\ \/ ~poolStarted /\ poolStarted'
       \/ poolConnections' # poolConnections
       \/ listenerC' < listenerC

\* C19 : after a pass of the connector on an open pool with an idle or
\* running connection, idle + connecting >= PoolIdleSize or the pool holds
\* PoolMaxSize connections.
C19_PassTarget ==
    [][PassStep =>
        LET ps == PoolSizeOf(poolConnections', cStatus')
        IN  (ps.idle + ps.running >= 1) =>
               \/ ps.idle + ps.connecting >= PoolIdleSize
               \/ ps.total - ps.closed = PoolMaxSize]_vars

C21_PoolCloseFinal ==
    /\ [](poolDone => \A c \in Range(poolConnections) :
                          cStatus[c] = "CLOSED" /\ cWs[c] # "open")
    /\ [][poolDone => (id' = id /\ poolConnections' = poolConnections)]_vars

(***************************************************************************)
(* Claims on the done latches                                              *)
(***************************************************************************)
\* C22 : once pool.done of the internal pool or server.done is closed, the
\* goroutine of Pool.start and the stats goroutine of Server.Start
\* eventually leave their loops, and once the done channel of a pool of the
\* public peer is closed its GC goroutine eventually leaves its loop.
C22_DoneCancels ==
    /\ poolDone ~> (replPc = "exit")
    /\ serverDone ~> (statsPc = "exit")
    /\ \A p \in Pools : (pDone[p] /\ gcPc[p] # "none") ~> (gcPc[p] = "exit")

(***************************************************************************)
(* Claims on the idle stack of a pool of the public peer                   *)
(***************************************************************************)
\* the tunnels held by the stack of pool p : its top and its stored sequence
Stacked(p) == (IF sTop[p] # 0 THEN {sTop[p]} ELSE {}) \cup Range(sConns[p])

\* C23 : every tunnel held by the idle stack of a pool, as top or in the
\* stored sequence, has status IDLE (a tunnel that has been closed is not
\* in the stack), and a tunnel just received from stack.out is no longer in
\* the stack.
C23_StackMembers ==
    /\ [](\A p \in Pools : \A c \in Stacked(p) : status[c] = "IDLE")
    /\ [][\A r \in Reqs : (rPc[r] = "select" /\ rPc'[r] = "take") =>
              \A p \in Pools : rConn'[r] \notin Stacked(p)']_vars

(***************************************************************************)
(* Claims on Release                                                       *)
(***************************************************************************)
\* the request r ends its exchange : proxyRequest calls Release
Releases(r) == rPc[r] = "readBody" /\ rPc'[r] = "done"

\* the tunnels some offer goroutine is sending on a stack's in channel
Offered == UNION {offers[p] : p \in Pools}

Blocked(r) ==
    /\ rPc[r] = "select"
    /\ timer[r] = "armed"
    /\ \A p \in rCases[r] : ~StackReady(p)

\* C25 : once the idle stack of a pool is closed, no dispatcher whose
\* select holds a receive case on that stack's out channel stays blocked
\* in the select : the closed stack wakes it and it loops to read
\* server.pools again.
C25_ClosedStackWakes ==
    \A r \in Reqs, p \in Pools :
        (rPc[r] = "select" /\ p \in rCases[r] /\ sDone[p] /\ ~sRun[p]) => ~Blocked(r)

\* C26 : a /register call that passed the secret check never returns
\* having dropped its tunnel while the websocket stays open : when the
\* handler returns, the tunnel is a member of its pool, the pool is open
\* and in Server.pools, and the tunnel has been accepted by the pool's
\* stack.
C26_RegisterPools ==
    /\ [](\A c \in Conns : regPc[c] = "dropped" => link[c] = "down")
    /\ [][\A c \in Conns : (regPc[c] = "offer" /\ regPc'[c] = "done") =>
              /\ c \in pConns'[cPool[c]]
              /\ ~pDone'[cPool[c]] /\ cPool[c] \in pools'
              /\ c \in Stacked(cPool[c])']_vars

FrameHolders(c) == {r \in Reqs : rConn[r] = c /\ rFrame[r] # NoMsg}

\* the frame readers of tunnel c in use : the one read has got from
\* ws.NextReader and not handed over yet, and the ones proxyRequest holds
Outstanding(c) == (IF rdPc[c] = "recv" THEN 1 ELSE 0) + Cardinality(FrameHolders(c))

\* C29 : on every tunnel at most one frame reader is outstanding; read
\* waits on the per-frame channel exactly while a proxyRequest holds the
\* reader it handed over; ws.NextReader returns the next frame only when
\* no proxyRequest holds a reader; and proxyRequest gets a reader only from
\* read, for the oldest frame received.
C29_SingleReader ==
    /\ [](\A c \in Conns : Outstanding(c) <= 1)
    /\ [](\A c \in Conns : rdPc[c] = "wait" <=> FrameHolders(c) # {})
    /\ [][\A c \in Conns : (rdPc[c] # "recv" /\ rdPc'[c] = "recv") =>
              (rdPc[c] = "next" /\ FrameHolders(c) = {})]_vars
    /\ [][\A r \in Reqs : (rFrame[r] = NoMsg /\ rFrame'[r] # NoMsg) =>
              /\ rdPc[rConn[r]] = "recv" /\ rdPc'[rConn[r]] = "wait"
              /\ rFrame'[r] = Head(up[rConn[r]])]_vars

\* proxyRequest holds the reader of a frame while the next frame has
\* already arrived on the websocket, and read waits on the channel
C29_Witness ==
    \E c \in Conns, r \in Reqs :
        /\ rdPc[c] = "wait" /\ rConn[r] = c /\ rFrame[r] # NoMsg
        /\ up[c] # <<>> /\ status[c] = "BUSY"

\* C30 : while a frame is pending on a tunnel whose status is IDLE the
\* tunnel is not taken and read does not keep the frame for a request;
\* when read gets a frame, or an error, on a tunnel that is not BUSY it
\* stops and the tunnel is CLOSED; a CLOSED tunnel stays CLOSED and no new
\* offer of it starts.
C30_UnexpectedFrame ==
    /\ [][\A c \in Conns : (status[c] = "IDLE" /\ up[c] # <<>>) =>
              (status'[c] \in {"IDLE", "CLOSED"} /\ rdPc'[c] \in {"next", "exit"})]_vars
    /\ [][\A c \in Conns : (rdPc[c] = "next" /\ rdPc'[c] # "next" /\ status[c] # "BUSY") =>
              (rdPc'[c] = "exit" /\ status'[c] = "CLOSED")]_vars
    /\ [][\A c \in Conns : status[c] = "CLOSED" =>
              (status'[c] = "CLOSED" /\ c \notin Offered' \ Offered)]_vars

(***************************************************************************)
(* Claims on failure isolation                                             *)
(***************************************************************************)
\* the pools a tunnel is a member of
MemberOf(conns, c) == {p \in Pools : c \in conns[p]}

\* C31 : failure isolation.  A step that closes one tunnel of the public
\* peer, and no pool, leaves the status and the pool membership of every
\* other tunnel as they were; a step that closes one pool leaves the done
\* latch, the idle stack and the members of every other pool, and the
\* status of those members, as they were; a step that closes one connection
\* of the internal peer, and not its pool, leaves the status of every other
\* connection and the membership of the pool as they were.
C31_Isolation ==
    /\ [][\A c \in Conns :
             (status[c] # "CLOSED" /\ status'[c] = "CLOSED" /\ pDone' = pDone) =>
                \A d \in Conns \ {c} :
                    /\ status'[d] = status[d]
                    /\ cPool'[d] = cPool[d]
                    /\ MemberOf(pConns', d) = MemberOf(pConns, d)]_vars
    /\ [][\A p \in Pools :
             (~pDone[p] /\ pDone'[p]) =>
                \A q \in Pools \ {p} :
                    /\ pDone'[q] = pDone[q]
                    /\ sDone'[q] = sDone[q]
                    /\ sRun'[q] = sRun[q]
                    /\ sTop'[q] = sTop[q]
                    /\ sConns'[q] = sConns[q]
                    /\ pConns'[q] = pConns[q]
                    /\ \A d \in pConns[q] : status'[d] = status[d]]_vars
    /\ [][\A c \in Ids :
             (~cDone[c] /\ cDone'[c] /\ poolDone' = poolDone) =>
                /\ poolConnections' = poolConnections
                /\ \A d \in Ids \ {c} : cStatus'[d] = cStatus[d] /\ cDone'[d] = cDone[d]]_vars

\* Shutdown has closed one pool and its tunnel and has not reached the
\* other pool, which is open with its member idle
C31_Witness ==
    /\ shPc = "pools"
    /\ \E p, q \in Pools :
          /\ p # q
          /\ pDone[p] /\ ~pDone[q]
          /\ q \in shTodo
          /\ \E c \in pConns[p] : status[c] = "CLOSED"
          /\ \E d \in pConns[q] : status[d] = "IDLE"

(***************************************************************************)
(* Claims on Server.Shutdown                                               *)
(***************************************************************************)
\* what Shutdown promises when it returns
ShutdownPost ==
    /\ serverDone
    /\ \A p \in pools :
          /\ pDone[p]
          /\ sDone[p]
          /\ \A c \in pConns[p] : status[c] = "CLOSED"

\* C32 : Server.Shutdown, once it holds server.lock, returns, whatever the
\* register handlers, the requests, the GC goroutines and the watchers do
\* meanwhile; when it returns server.done is closed, the done latch and
\* the stack of every pool are closed and every member tunnel is CLOSED;
\* a second call changes nothing.
C32_Shutdown ==
    /\ (shPc = "pools") ~> (shPc = "done")
    /\ [][(shPc = "pools" /\ shPc' = "done") => ShutdownPost']_vars
    /\ [][(shPc' # shPc /\ (shPc' = "again" \/ shPc = "again")) =>
             UNCHANGED <<queueVars, clientVars, cfgVars, serverDone, statsPc, shTodo, pCloses, sCloses,
                         panicked, now, pools, poolVars, stackVars, gcVars, connVars, wireVars,
                         intVars, reqVars>>]_vars

\* the parts of C32 that hold : no step of Shutdown waits for a lock that
\* is never released, and the state at its return
C32_ReturnState ==
    /\ [][(shPc = "pools" /\ shPc' = "done") => ShutdownPost']_vars
    /\ [][(shPc' # shPc /\ (shPc' = "again" \/ shPc = "again")) =>
             UNCHANGED <<queueVars, clientVars, cfgVars, serverDone, statsPc, shTodo, pCloses, sCloses,
                         panicked, now, pools, poolVars, stackVars, gcVars, connVars, wireVars,
                         intVars, reqVars>>]_vars
    /\ (shPc = "pools" /\ [](~panicked)) ~> (shPc = "done")

(***************************************************************************)
(* Claims on the GC beside the dispatcher                                  *)
(***************************************************************************)
\* C33 : the GC never kills a request in flight.  In every step in which
\* clean closes the tunnel it has found idle for too long, the tunnel is
\* not BUSY : it is still in the IDLE state clean tested.
C33_GCSparesBusy ==
    [][\A p \in Pools :
          (gcPc[p] = "run" /\ gcHit[p] # 0 /\ gcHit'[p] = 0) => status[gcHit[p]] # "BUSY"]_vars

(***************************************************************************)
(* Claims on the done latches of a pool of the public peer                 *)
(***************************************************************************)
\* C34 : the done latch of a pool and the done latch of its stack are each
\* closed at most once : close is never called on a latch already closed.
C34_LatchClosedOnce == \A p \in Pools : pCloses[p] <= 1 /\ sCloses[p] <= 1

\* the part of C34 that holds : the latch of the stack is closed once
C34_StackLatchOnce == \A p \in Pools : sCloses[p] <= 1

(***************************************************************************)
(* Claims on the offers to the idle stack                                  *)
(***************************************************************************)
\* C35 : every offer returns.  A tunnel whose offer is sending on the in
\* endpoint of the stack of its pool is eventually received : no offer
\* stays blocked for ever, whatever closes the pool and its stack meanwhile.
C35_OffersComplete ==
    \A p \in Pools, c \in Conns : (c \in offers[p]) ~> (c \notin offers[p])

\* the part of C35 that holds : the offer of Pool.register, made under
\* pool.lock on a pool that is open, is received
C35_RegisterOfferCompletes ==
    \A c \in Conns : (regPc[c] = "offer") ~> (regPc[c] = "done")

(***************************************************************************)
(* Part III : the priority queue (priority_queue/stack.go).                *)
(* An item is <<id, key>> : key 0 is an item that is not Comparable, a     *)
(* larger key is the string a ComparableItem compares by.  A message is a  *)
(* record of its type and its fields.                                      *)
(***************************************************************************)
SeqRange(s) == {s[i] : i \in DOMAIN s}

ItemIds(s) == {s[i][1] : i \in DOMAIN s}

Message(type, item, request, f, n) ==
    [type |-> type, item |-> item, request |-> request, f |-> f, n |-> n]

\* run.get : the first item of a FIFO queue, the last of a LIFO queue, and
\* the items left (it panics on an empty queue : every caller tests it)
getFirst(its, prio) == [item |-> its[1], items |-> SubSeq(its, 2, Len(its))]

get(its, prio) ==
    IF prio = FIFO
    THEN [item |-> its[1], items |-> SubSeq(its, 2, Len(its))]
    ELSE [item |-> its[Len(its)], items |-> SubSeq(its, 1, Len(its) - 1)]

\* ComparableItem.compare : strings.Compare of the two keys
compare(a, b) == IF a[2] < b[2] THEN -1 ELSE IF a[2] > b[2] THEN 1 ELSE 0

\* offerMessage with no request waiting : a Comparable item goes before the
\* first item it beats (FIFO : that it is greater than, LIFO : that it is
\* less than), any other item to the end of the array
insertAppend(its, it, prio) == Append(its, it)

insert(its, it, prio) ==
    LET hits == {i \in DOMAIN its : IF prio = FIFO THEN compare(it, its[i]) > 0
                                                   ELSE compare(it, its[i]) < 0}
    IN  IF it[2] # 0 /\ hits # {}
        THEN LET i == CHOOSE j \in hits : \A k \in hits : j <= k
             IN  SubSeq(its, 1, i - 1) \o <<it>> \o SubSeq(its, i, Len(its))
        ELSE Append(its, it)

\* the functions the callers give to Exec : queueDumper returns the array as
\* it is, the function of TestExecutorAdd returns a new array of AddCount
\* new items
Apply(f, its, n) ==
    IF f = "add" THEN [j \in 1..AddCount |-> <<10 * n + j, 0>>] ELSE its

\* NewPriorityQueue : the channel, and the run goroutine at its receive
NewPriorityQueue(prio, ks) ==
    /\ priority = prio
    /\ items = <<>>
    /\ requests = <<>>
    /\ channel = {}
    /\ runPc = "recv"
    /\ runTodo = <<>>
    /\ runSend = <<>>
    /\ chBuf = [r \in Takes |-> <<>>]
    /\ chClosed = [r \in Takes |-> FALSE]
    /\ cons = [r \in Takes |-> "none"]
    /\ gotItem = [r \in Takes |-> <<>>]
    /\ nOffer = 0
    /\ nExec = 0
    /\ nSet = 0
    /\ nClose = 0
    /\ keys = ks
    /\ inserted = <<>>
    /\ removed = {}

\* PriorityQueue.Offer : the caller sends an offerMessage and is blocked in
\* the send until the run goroutine receives it
QueueOffer(k) ==
    /\ runPc # "none"
    /\ nOffer < QueueItems
    /\ k \in keys
    /\ nOffer' = nOffer + 1
    /\ channel' = channel \cup {Message("offer", <<nOffer + 1, k>>, 0, "", 0)}
    /\ UNCHANGED <<priority, items, requests, runPc, runTodo, runSend, chBuf, chClosed, cons,
                   gotItem, nExec, nSet, nClose, keys, inserted, removed>>
    /\ UNCHANGED <<clientVars, serverVars, taskVars>>

\* PriorityQueue.Take : the caller makes a channel of capacity 1 and sends a
\* takeMessage with it
QueueTake(r) ==
    /\ runPc # "none"
    /\ cons[r] = "none"
    /\ \A q \in Takes : q < r => cons[q] # "none"
    /\ cons' = [cons EXCEPT ![r] = "wait"]
    /\ channel' = channel \cup {Message("take", <<>>, r, "", 0)}
    /\ UNCHANGED <<priority, items, requests, runPc, runTodo, runSend, chBuf, chClosed,
                   gotItem, nOffer, nExec, nSet, nClose, keys, inserted, removed>>
    /\ UNCHANGED <<clientVars, serverVars, taskVars>>

\* PriorityQueue.Exec : the caller sends an execMessage with its function
QueueExec(f) ==
    /\ runPc # "none"
    /\ nExec < QueueExecs
    /\ f = "add" => keys = {0}
    /\ nExec' = nExec + 1
    /\ channel' = channel \cup {Message("exec", <<>>, 0, f, nExec + 1)}
    /\ UNCHANGED <<priority, items, requests, runPc, runTodo, runSend, chBuf, chClosed, cons,
                   gotItem, nOffer, nSet, nClose, keys, inserted, removed>>
    /\ UNCHANGED <<clientVars, serverVars, taskVars>>

\* PriorityQueue.SetPriority : the caller sends a priorityMessage
SetPriority(prio) ==
    /\ runPc # "none"
    /\ nSet < QueueSets
    /\ nSet' = nSet + 1
    /\ channel' = channel \cup {Message("priority", <<>>, 0, "", prio)}
    /\ UNCHANGED <<priority, items, requests, runPc, runTodo, runSend, chBuf, chClosed, cons,
                   gotItem, nOffer, nExec, nClose, keys, inserted, removed>>
    /\ UNCHANGED <<clientVars, serverVars, taskVars>>

\* PriorityQueue.Close : the caller sends a closeMessage
QueueClose ==
    /\ runPc # "none"
    /\ nClose = 0
    /\ nClose' = 1
    /\ channel' = channel \cup {Message("close", <<>>, 0, "", 0)}
    /\ UNCHANGED <<priority, items, requests, runPc, runTodo, runSend, chBuf, chClosed, cons,
                   gotItem, nOffer, nExec, nSet, keys, inserted, removed>>
    /\ UNCHANGED <<clientVars, serverVars, taskVars>>

\* run, offerMessage : the item goes to the oldest request waiting, or else
\* into the array
RunOffer(m) ==
    /\ runPc = "recv"
    /\ m \in channel
    /\ m.type = "offer"
    /\ channel' = channel \ {m}
    /\ IF Len(requests) > 0
       THEN /\ requests' = Tail(requests)
            /\ runSend' = <<Head(requests), m.item>>
            /\ runPc' = "send"
            /\ UNCHANGED <<items, inserted>>
       ELSE /\ items' = insert(items, m.item, priority)
            /\ inserted' = Append(inserted, m.item[1])
            /\ UNCHANGED <<requests, runSend, runPc>>
    /\ UNCHANGED <<priority, runTodo, chBuf, chClosed, cons, gotItem, nOffer, nExec, nSet,
                   nClose, keys, removed>>
    /\ UNCHANGED <<clientVars, serverVars, taskVars>>

\* run, takeMessage : the request is completed at once from the array, or
\* else buffered
RunTake(m) ==
    /\ runPc = "recv"
    /\ m \in channel
    /\ m.type = "take"
    /\ channel' = channel \ {m}
    /\ IF Len(items) > 0
       THEN /\ runSend' = <<m.request, get(items, priority).item>>
            /\ items' = get(items, priority).items
            /\ runPc' = "send"
            /\ UNCHANGED requests
       ELSE /\ requests' = Append(requests, m.request)
            /\ UNCHANGED <<items, runSend, runPc>>
    /\ UNCHANGED <<priority, runTodo, chBuf, chClosed, cons, gotItem, nOffer, nExec, nSet,
                   nClose, keys, inserted, removed>>
    /\ UNCHANGED <<clientVars, serverVars, taskVars>>

\* run, execMessage : the function is applied to the array, done is closed,
\* and the range loop over the requests starts
RunExec(m) ==
    /\ runPc = "recv"
    /\ m \in channel
    /\ m.type = "exec"
    /\ channel' = channel \ {m}
    /\ items' = Apply(m.f, items, m.n)
    /\ removed' = removed \cup (ItemIds(items) \ ItemIds(items'))
    /\ inserted' = inserted \o [i \in 1..(IF m.f = "add" THEN AddCount ELSE 0) |-> items'[i][1]]
    /\ runTodo' = requests
    /\ runPc' = "exec"
    /\ UNCHANGED <<priority, requests, runSend, chBuf, chClosed, cons, gotItem, nOffer, nExec,
                   nSet, nClose, keys>>
    /\ UNCHANGED <<clientVars, serverVars, taskVars>>

\* run, execMessage : one turn of the range loop, which completes the
\* request with an item if the array has one, and the end of the loop
RunExecLoop ==
    /\ runPc = "exec"
    /\ IF runTodo = <<>>
       THEN /\ runPc' = "recv"
            /\ UNCHANGED <<items, runTodo, runSend>>
       ELSE /\ runTodo' = Tail(runTodo)
            /\ IF Len(items) > 0
               THEN /\ runSend' = <<Head(runTodo), get(items, priority).item>>
                    /\ items' = get(items, priority).items
                    /\ runPc' = "execSend"
               ELSE UNCHANGED <<items, runSend, runPc>>
    /\ UNCHANGED <<priority, requests, channel, chBuf, chClosed, cons, gotItem, nOffer, nExec,
                   nSet, nClose, keys, inserted, removed>>
    /\ UNCHANGED <<clientVars, serverVars, taskVars>>

\* run : the send of an item on a request channel, which waits for room in
\* the buffer of the channel
RunSend ==
    /\ runPc \in {"send", "execSend"}
    /\ chBuf[runSend[1]] = <<>>
    /\ chBuf' = [chBuf EXCEPT ![runSend[1]] = <<runSend[2]>>]
    /\ runSend' = <<>>
    /\ runPc' = IF runPc = "send" THEN "recv" ELSE "exec"
    /\ UNCHANGED <<priority, items, requests, channel, runTodo, chClosed, cons, gotItem,
                   nOffer, nExec, nSet, nClose, keys, inserted, removed>>
    /\ UNCHANGED <<clientVars, serverVars, taskVars>>

\* run, priorityMessage
RunPriority(m) ==
    /\ runPc = "recv"
    /\ m \in channel
    /\ m.type = "priority"
    /\ channel' = channel \ {m}
    /\ priority' = m.n
    /\ UNCHANGED <<items, requests, runPc, runTodo, runSend, chBuf, chClosed, cons, gotItem,
                   nOffer, nExec, nSet, nClose, keys, inserted, removed>>
    /\ UNCHANGED <<clientVars, serverVars, taskVars>>

\* run, closeMessage : the channel of every request in the list is closed,
\* the array and the list are dropped and the goroutine leaves its loop
closeRequestsNone(closed, reqs) == closed

closeRequests(closed, reqs) == [r \in DOMAIN closed |-> closed[r] \/ r \in SeqRange(reqs)]

RunClose(m) ==
    /\ runPc = "recv"
    /\ m \in channel
    /\ m.type = "close"
    /\ channel' = channel \ {m}
    /\ chClosed' = closeRequests(chClosed, requests)
    /\ items' = <<>>
    /\ requests' = <<>>
    /\ runPc' = "exit"
    /\ UNCHANGED <<priority, runTodo, runSend, chBuf, cons, gotItem, nOffer, nExec, nSet,
                   nClose, keys, inserted, removed>>
    /\ UNCHANGED <<clientVars, serverVars, taskVars>>

\* the consumer of a Take, once Take has returned its channel : its receive
\* returns the item in the buffer, or the zero value of a closed channel
Receive(r) ==
    /\ cons[r] = "wait"
    /\ \A m \in channel : ~(m.type = "take" /\ m.request = r)
    /\ IF chBuf[r] # <<>>
       THEN /\ cons' = [cons EXCEPT ![r] = "item"]
            /\ gotItem' = [gotItem EXCEPT ![r] = chBuf[r][1]]
            /\ chBuf' = [chBuf EXCEPT ![r] = <<>>]
       ELSE /\ chClosed[r]
            /\ cons' = [cons EXCEPT ![r] = "closed"]
            /\ UNCHANGED <<gotItem, chBuf>>
    /\ UNCHANGED <<priority, items, requests, channel, runPc, runTodo, runSend, chClosed,
                   nOffer, nExec, nSet, nClose, keys, inserted, removed>>
    /\ UNCHANGED <<clientVars, serverVars, taskVars>>

InitQueue ==
    /\ ClientIdle
    /\ ServerInit({0}, 0, 0)
    /\ PlainTraffic
    /\ \E prio \in {FIFO, LIFO} : \E ks \in {{0}, 1..QueueKeys} : NewPriorityQueue(prio, ks)

QueueNext ==
    \/ \E k \in 0..QueueKeys : QueueOffer(k)
    \/ \E r \in Takes : QueueTake(r)
    \/ \E f \in {"dump", "add"} : QueueExec(f)
    \/ \E prio \in {FIFO, LIFO} : SetPriority(prio)
    \/ QueueClose
    \/ \E m \in channel : RunOffer(m)
    \/ \E m \in channel : RunTake(m)
    \/ \E m \in channel : RunExec(m)
    \/ \E m \in channel : RunPriority(m)
    \/ \E m \in channel : RunClose(m)
    \/ RunExecLoop
    \/ RunSend
    \/ \E r \in Takes : Receive(r)

SpecQueue == InitQueue /\ [][QueueNext]_vars

(***************************************************************************)
(* Claims on the priority queue                                            *)
(***************************************************************************)
\* the place of a stored item in the order of storing
StoredAt(i) == CHOOSE n \in DOMAIN inserted : inserted[n] = i

\* the run goroutine completes a takeMessage from the array in this step
TakeServed == runPc = "recv" /\ runPc' = "send" /\ Len(items') < Len(items)

\* C36 : the order of Take.  On a queue of items that are not Comparable, a
\* Take that finds items stored is given the one stored first when the
\* priority is FIFO and the one stored last when it is LIFO, on the channel
\* of that Take, and the item leaves the queue, the others staying in their
\* order : successive Takes return the items in the order of insertion, or
\* in the reverse order.
C36_TakeOrder ==
    [][(TakeServed /\ keys = {0}) =>
          LET m == CHOOSE x \in channel : x \notin channel'
              it == runSend'[2]
          IN  /\ m.type = "take"
              /\ runSend'[1] = m.request
              /\ it[1] \in ItemIds(items)
              /\ \A j \in ItemIds(items) :
                    IF priority = FIFO THEN StoredAt(it[1]) <= StoredAt(j)
                                       ELSE StoredAt(it[1]) >= StoredAt(j)
              /\ ItemIds(items') = ItemIds(items) \ {it[1]}
              /\ Len(items') = Len(items) - 1
              /\ \A a, b \in 1..Len(items') :
                    a < b => StoredAt(items'[a][1]) < StoredAt(items'[b][1])]_vars

\* C36, its case : a LIFO queue whose two items, not Comparable, were taken
\* by two Takes in the reverse of the order of storing
C36_Witness ==
    /\ priority = LIFO
    /\ keys = {0}
    /\ nSet = 0
    /\ nExec = 0
    /\ Len(inserted) = 2
    /\ \E r, q \in Takes :
          /\ r < q
          /\ cons[r] = "item"
          /\ cons[q] = "item"
          /\ gotItem[r][1] = inserted[2]
          /\ gotItem[q][1] = inserted[1]

\* the items sent so far on the channel of a request : the one its consumer
\* received and the one in its buffer
SentTo(r) == Len(chBuf[r]) + (IF cons[r] = "item" THEN 1 ELSE 0)

\* the places an item is in : the array, the send in progress, the buffer of
\* a channel, the hands of a consumer, or taken out by a function
PlacesOf(i) ==
    Cardinality({n \in DOMAIN items : items[n][1] = i})
    + (IF runSend # <<>> /\ runSend[2][1] = i THEN 1 ELSE 0)
    + Cardinality({r \in Takes : chBuf[r] # <<>> /\ chBuf[r][1][1] = i})
    + Cardinality({r \in Takes : cons[r] = "item" /\ gotItem[r][1] = i})
    + (IF i \in removed THEN 1 ELSE 0)

\* the items the run goroutine was given : those of the offerMessages it
\* received and those the functions added, which were all stored
GivenIds ==
    {i \in 1..nOffer : \A m \in channel : ~(m.type = "offer" /\ m.item[1] = i)}
    \cup SeqRange(inserted)

\* C37 : Exec with Takes pending.  Whenever the run goroutine is back at its
\* receive, no request it completed is left in the list of the pending
\* requests; the channel of a Take is sent one item at most; every item the
\* queue was given is in one place exactly while the queue is open, and an
\* item in the buffer of a channel has a consumer still to receive it; the
\* run goroutine is never in a send that has to wait.
C37_ExecCompletesPending ==
    /\ runPc = "recv" => \A r \in SeqRange(requests) : SentTo(r) = 0
    /\ \A r \in Takes : SentTo(r) <= 1
    /\ runPc \in {"recv", "send", "exec", "execSend"} => \A i \in GivenIds : PlacesOf(i) = 1
    /\ \A r \in Takes : chBuf[r] # <<>> => cons[r] = "wait"
    /\ runPc \in {"send", "execSend"} => chBuf[runSend[1]] = <<>>

\* the parts of C37 that hold : no item is in two places, and none is gone
C37_ItemsConserved ==
    runPc \in {"recv", "send", "exec", "execSend"} => \A i \in GivenIds : PlacesOf(i) = 1

\* the run goroutine will never receive a message again : it left its loop,
\* or it is in a send on a full buffer whose consumer has had its item
RunGone ==
    \/ runPc = "exit"
    \/ /\ runPc \in {"send", "execSend"}
       /\ chBuf[runSend[1]] # <<>>
       /\ cons[runSend[1]] = "item"

\* C38 : Offer never blocks.  No call of Offer is left in its send with
\* nothing to receive it : on an open queue the run goroutine comes back to
\* its receive and the call returns, and on a closed queue the call has
\* panicked instead of waiting.
C38_OfferNeverBlocks == \A m \in channel : m.type = "offer" => ~RunGone

\* the calls of TestClose and TestExecutorAdd : Takes, Offers, an adding
\* Exec and Close, the consumers receiving.  The goroutines are scheduled
\* fairly : a step that stays possible is taken.
WaitersNext ==
    \/ \E k \in 0..QueueKeys : QueueOffer(k)
    \/ \E r \in Takes : QueueTake(r)
    \/ QueueExec("add")
    \/ QueueClose
    \/ \E m \in channel : RunOffer(m)
    \/ \E m \in channel : RunTake(m)
    \/ \E m \in channel : RunExec(m)
    \/ \E m \in channel : RunClose(m)
    \/ RunExecLoop
    \/ RunSend
    \/ \E r \in Takes : Receive(r)

LiveSpecWaiters ==
    /\ InitQueue
    /\ [][WaitersNext]_vars
    /\ WF_vars(RunExecLoop \/ RunSend)
    /\ \A r \in Takes : WF_vars(Receive(r))

\* the Take requests still pending : received by the run goroutine and sent
\* no item since
PendingTakes ==
    {r \in Takes : /\ cons[r] = "wait"
                   /\ \A m \in channel : ~(m.type = "take" /\ m.request = r)
                   /\ chBuf[r] = <<>>
                   /\ ~chClosed[r]
                   /\ ~(runSend # <<>> /\ runSend[1] = r)}

\* C39 : Close releases the waiters.  The step of the run goroutine on a
\* closeMessage closes the channel of every Take still pending and leaves
\* the buffer of every channel as it is; the consumer of a Take pending
\* then receives the result of a closed channel, and the consumer of a Take
\* completed with an item, whenever it receives, receives that item.
C39_CloseReleasesWaiters ==
    /\ [][(runPc = "recv" /\ runPc' = "exit") =>
             /\ \A r \in PendingTakes : chClosed'[r]
             /\ chBuf' = chBuf]_vars
    /\ \A r \in Takes :
          (runPc = "exit" /\ cons[r] = "wait"
              /\ chClosed[r] /\ chBuf[r] = <<>>) ~> (cons[r] = "closed")
    /\ [][\A r \in Takes :
             (cons[r] = "wait" /\ cons'[r] # "wait") =>
                IF chBuf[r] # <<>>
                THEN cons'[r] = "item" /\ gotItem'[r] = chBuf[r][1]
                ELSE cons'[r] = "closed" /\ chClosed[r]]_vars

\* C39, its case : the queue was closed with a Take pending, whose consumer
\* received the result of a closed channel, and with a Take completed, whose
\* consumer received its item after the close
C39_Witness ==
    /\ runPc = "exit"
    /\ \E r, q \in Takes :
          /\ cons[r] = "closed"
          /\ chClosed[r]
          /\ cons[q] = "item"
          /\ gotItem[q] # <<>>

\* C40 : the invariant of the run goroutine.  Whenever it is at its receive,
\* between two messages, the list of the pending requests is not empty if
\* and only if the array of the items is empty.
C40_PendingIffEmpty == runPc = "recv" => (Len(requests) > 0 <=> Len(items) = 0)

\* the half of C40 it names in particular : between two messages, pending
\* requests and stored items never coexist
C40_NeverCoexist == runPc = "recv" => ~(Len(requests) > 0 /\ Len(items) > 0)

\* the part of C40 that holds : a step on an offerMessage or a takeMessage
\* never makes requests and items coexist
C40_OfferTakeKeep ==
    [][(runPc = "recv" /\ runPc' \in {"recv", "send"}
           /\ ~(Len(requests) > 0 /\ Len(items) > 0)) =>
          ~(Len(requests') > 0 /\ Len(items') > 0)]_vars

====
